---- MODULE Spec2Model ----
(***************************************************************************)
(* A model of the port-forward supervisor (alinemone/go-port-forward).     *)
(*                                                                         *)
(* The repository holds two fleet managers side by side:                   *)
(*   - package main      (src/manager.go), driven by src/main.go, src/ui.go *)
(*   - package service   (src/unnamed/part_010, src/internal/service/      *)
(*                        runner.go, types.go, src/unnamed/part_017)       *)
(* Both are modelled.  Spec is the package-main fleet, SpecSvc the package *)
(* service fleet.                                                          *)
(*                                                                         *)
(* Strings that the code inspects (names, commands, ports) are sequences   *)
(* of one-character strings.  Messages the code only builds and stores are *)
(* sequences of string fragments (a %d is rendered by Itoa).               *)
(***************************************************************************)
EXTENDS Integers, Sequences, FiniteSets, TLC

----------------------------------------------------------------------------
(* Bounds of the model (not program constants).                            *)

\* Service objects built by Start during one run of the program.
MaxInst == 2
\* Child failures (a failed spawn, a child that exits by itself) the
\* environment injects in SpecRun.
MaxFaults == 2
\* Lines a monitor reacts to that the children write.
MaxLines == 1
\* Calls of addError and of addLog on one Service in SpecRing.
MaxErrorCalls == 12
MaxLogCalls == 102
\* the time since the last activity is followed up to MaxSince milliseconds
MaxSince == 31000
\* the lines that the child prints while the UI ticks
MaxTickLogs == 3

\* the space presses on one row while the modal is open
MaxToggles == 3
\* the errors of one State whose times are told apart
MaxErrorTime == 2

----------------------------------------------------------------------------
(* Strings.                                                                *)

Digits == {"0", "1", "2", "3", "4", "5", "6", "7", "8", "9"}
Lower == {"a", "b", "c", "d", "e", "f", "g", "h", "i", "j", "k", "l", "m",
          "n", "o", "p", "q", "r", "s", "t", "u", "v", "w", "x", "y", "z"}
Upper == {"A", "B", "C", "D", "E", "F", "G", "H", "I", "J", "K", "L", "M",
          "N", "O", "P", "Q", "R", "S", "T", "U", "V", "W", "X", "Y", "Z"}
Space == {" ", "\t", "\n", "\r"}

\* The characters in byte order, for string comparison (sort.Slice on Name).
AsciiOrder == <<"\t", "\n", "\r", " ", "\"", "*", "-", ".", "/",
                "0", "1", "2", "3", "4", "5", "6", "7", "8", "9",
                ":", "<", "=", ">", "?",
                "A", "B", "C", "D", "E", "F", "G", "H", "I", "J", "K", "L", "M",
                "N", "O", "P", "Q", "R", "S", "T", "U", "V", "W", "X", "Y", "Z",
                "\\", "_",
                "a", "b", "c", "d", "e", "f", "g", "h", "i", "j", "k", "l", "m",
                "n", "o", "p", "q", "r", "s", "t", "u", "v", "w", "x", "y", "z",
                "|">>

Code(c) == CHOOSE i \in 1..Len(AsciiOrder) : AsciiOrder[i] = c

\* a < b on Go strings (byte-wise lexicographic).
StrLess(a, b) ==
    \E k \in 1..(Len(b)) :
        /\ \A j \in 1..(k - 1) : j <= Len(a) /\ a[j] = b[j]
        /\ \/ k = Len(a) + 1
           \/ k <= Len(a) /\ Code(a[k]) < Code(b[k])

\* strings.Contains(s, sub)
Contains(s, sub) ==
    \E i \in 1..(Len(s) - Len(sub) + 1) : SubSeq(s, i, i + Len(sub) - 1) = sub

\* regexp `pre\s+post` matches somewhere in s
MatchWs(s, pre, post) ==
    \E i \in 1..Len(s) : \E j \in (i + Len(pre) + 1)..Len(s) :
        /\ i + Len(pre) - 1 <= Len(s)
        /\ SubSeq(s, i, i + Len(pre) - 1) = pre
        /\ \A k \in (i + Len(pre))..(j - 1) : s[k] \in Space
        /\ j + Len(post) - 1 <= Len(s)
        /\ SubSeq(s, j, j + Len(post) - 1) = post

\* strings.ToLower on the characters the model uses
ToLowerChar(c) ==
    IF c \in Upper
    THEN AsciiOrder[Code(c) + (Code("a") - Code("A"))]
    ELSE c

ToLower(s) == [i \in 1..Len(s) |-> ToLowerChar(s[i])]

\* fmt's %d for 0..99
DigitStr == <<"0", "1", "2", "3", "4", "5", "6", "7", "8", "9">>

Itoa(n) ==
    IF n < 10
    THEN <<DigitStr[n + 1]>>
    ELSE <<DigitStr[(n \div 10) + 1], DigitStr[(n % 10) + 1]>>

\* the nil error / the empty Go string of a message
nil == <<>>

----------------------------------------------------------------------------
(* Validation (package main).                                              *)

dangerousChars == <<<<".", ".">>, <<"/">>, <<"\\">>, <<":">>, <<"*">>, <<"?">>,
                    <<"\"">>, <<"<">>, <<">">>, <<"|">>>>

validateServiceName(name) ==
    IF name = <<>>
    THEN <<"service name cannot be empty">>
    ELSE IF Len(name) > 50
    THEN <<"service name too long (max 50 characters)">>
    ELSE IF \E k \in 1..Len(dangerousChars) : Contains(name, dangerousChars[k])
    THEN <<"service name contains invalid character: ">>
         \o dangerousChars[CHOOSE k \in 1..Len(dangerousChars) :
                /\ Contains(name, dangerousChars[k])
                /\ \A j \in 1..(k - 1) : ~Contains(name, dangerousChars[j])]
    ELSE IF \E i \in 1..Len(name) :
                name[i] \notin (Lower \cup Upper \cup Digits \cup {"_", "-"})
    THEN <<"service name can only contain letters, numbers, hyphens, and underscores">>
    ELSE nil

\* the dangerousPatterns of validateCommand, in order; a pattern is a pair
\* <<pre, post>> for `pre\s+post` and <<lit>> for a literal.
dangerousPatterns ==
    << <<<<"r", "m">>, <<"-", "r", "f">>>>,
       <<<<"d", "d">>, <<"i", "f", "=">>>>,
       <<<<"m", "k", "f", "s">>>>,
       <<<<"f", "o", "r", "m", "a", "t">>>>,
       <<<<"d", "e", "l">>, <<"/", "f">>>>,
       <<<<"s", "h", "u", "t", "d", "o", "w", "n">>>>,
       <<<<"r", "e", "b", "o", "o", "t">>>>,
       <<<<"h", "a", "l", "t">>>>,
       <<<<"p", "o", "w", "e", "r", "o", "f", "f">>>> >>

PatternMatches(pat, s) ==
    IF Len(pat) = 2 THEN MatchWs(s, pat[1], pat[2]) ELSE Contains(s, pat[1])

PatternText(pat) ==
    IF Len(pat) = 2 THEN pat[1] \o <<"\\", "s", "+">> \o pat[2] ELSE pat[1]

validateCommand(command) ==
    IF command = <<>>
    THEN <<"command cannot be empty">>
    ELSE IF Len(command) > 1000
    THEN <<"command too long (max 1000 characters)">>
    ELSE IF \E k \in 1..Len(dangerousPatterns) :
                PatternMatches(dangerousPatterns[k], ToLower(command))
    THEN <<"command contains potentially dangerous operation: ">>
         \o PatternText(dangerousPatterns[CHOOSE k \in 1..Len(dangerousPatterns) :
                /\ PatternMatches(dangerousPatterns[k], ToLower(command))
                /\ \A j \in 1..(k - 1) :
                       ~PatternMatches(dangerousPatterns[j], ToLower(command))])
    ELSE nil

----------------------------------------------------------------------------
(* Port extraction: the first `(\d+):(\d+)` of the command.                *)

\* the last index of the run of digits that starts at i (i - 1: none)
RECURSIVE DigitRunEnd(_, _)
DigitRunEnd(s, i) ==
    IF i <= Len(s) /\ s[i] \in Digits THEN DigitRunEnd(s, i + 1) ELSE i - 1

PortMatchAt(s, i) ==
    LET e == DigitRunEnd(s, i)
    IN  /\ e >= i
        /\ e + 2 <= Len(s)
        /\ s[e + 1] = ":"
        /\ s[e + 2] \in Digits

\* <<local, remote>>; <<nil, nil>> when nothing matches
ExtractPorts(command) ==
    IF \E i \in 1..Len(command) : PortMatchAt(command, i)
    THEN LET i == CHOOSE k \in 1..Len(command) :
                      /\ PortMatchAt(command, k)
                      /\ \A j \in 1..(k - 1) : ~PortMatchAt(command, j)
             e == DigitRunEnd(command, i)
         IN  <<SubSeq(command, i, e),
               SubSeq(command, e + 2, DigitRunEnd(command, e + 2))>>
    ELSE <<nil, nil>>

----------------------------------------------------------------------------
(* The catalog (services.json), fixed while the fleet runs.                *)

nDb == <<"d", "b">>
nWeb == <<"w", "e", "b">>
nNoPorts == <<"n", "p">>
nDanger == <<"h", "z">>
nAbsent == <<"z", "z">>
nBadChar == <<"a", "/">>
nLong == [i \in 1..51 |-> "a"]
\* a second service on the local port of nDb
nTwin == <<"d", "c">>
\* a group name
nGrp == <<"g">>

Catalog ==
    (nDb :> <<"k", " ", "5", ":", "5">>)
    @@ (nWeb :> <<"s", " ", "6", ":", "7">>)
    @@ (nNoPorts :> <<"k", " ", "x">>)
    @@ (nDanger :> <<"H", "a", "l", "t", " ", "5", ":", "5">>)
    @@ (nTwin :> <<"s", " ", "5", ":", "8">>)

\* the names a caller passes to Start, AddService, Stop and Restart
ArgNames == {nDb, nWeb, nNoPorts, nDanger, nAbsent, nBadChar, nLong, <<>>}

\* Storage.Get: <<command, err>>
StorageGet(name) ==
    IF name \in DOMAIN Catalog
    THEN <<Catalog[name], nil>>
    ELSE <<nil, <<"service '">> \o name \o <<"' not found">>>>

----------------------------------------------------------------------------
(* Storage (src/storage.go): the catalog file and the calls that read and  *)
(* write it.  The file is kept as the JSON value that its text denotes;    *)
(* a JSON value is a string, an array or an object.                        *)

JString(s) == [t |-> "string", v |-> s]
JArray(q) == [t |-> "array", v |-> q]
JObject(f) == [t |-> "object", v |-> f]

\* services.json does not exist
NoFile == [t |-> "none", v |-> <<>>]

\* the keys of the struct tags of StorageData
kServices == <<"s", "e", "r", "v", "i", "c", "e", "s">>
kGroups == <<"g", "r", "o", "u", "p", "s">>

\* m[k] = v of a Go map
Put(m, k, v) == [x \in DOMAIN m \cup {k} |-> IF x = k THEN v ELSE m[x]]

\* delete(m, k) of a Go map
Drop(m, k) == [x \in DOMAIN m \ {k} |-> m[x]]

\* A Marshal that writes the two keys whether the maps are empty or not.
MarshalKeepsEmpty(data) ==
    JObject((kServices :> JObject([n \in DOMAIN data.Services |->
                                      JString(data.Services[n])]))
            @@ (kGroups :> JObject([g \in DOMAIN data.Groups |->
                                       JArray([k \in DOMAIN data.Groups[g] |->
                                                  JString(data.Groups[g][k])])])))

\* json.MarshalIndent of a StorageData: "services" and "groups" carry
\* omitempty, an empty map is left out
Marshal(data) ==
    LET all == MarshalKeepsEmpty(data).v
        keys == {k \in DOMAIN all : DOMAIN all[k].v # {}}
    IN  JObject([k \in keys |-> all[k]])

\* json.Unmarshal into a StorageData.  A key that is absent leaves its map
\* nil; a value of the wrong type is an error; other keys are ignored
UnmarshalStorageData(doc) ==
    LET f == doc.v
        servicesOk ==
            kServices \in DOMAIN f
                => /\ f[kServices].t = "object"
                   /\ \A n \in DOMAIN f[kServices].v : f[kServices].v[n].t = "string"
        groupsOk ==
            kGroups \in DOMAIN f
                => /\ f[kGroups].t = "object"
                   /\ \A g \in DOMAIN f[kGroups].v :
                          /\ f[kGroups].v[g].t = "array"
                          /\ \A k \in DOMAIN f[kGroups].v[g].v :
                                 f[kGroups].v[g].v[k].t = "string"
    IN  [err |-> IF servicesOk /\ groupsOk THEN nil ELSE <<"json: cannot unmarshal">>,
         servicesNil |-> ~(kServices \in DOMAIN f /\ servicesOk),
         Services |-> IF kServices \in DOMAIN f /\ servicesOk
                      THEN [n \in DOMAIN f[kServices].v |-> f[kServices].v[n].v]
                      ELSE <<>>,
         Groups |-> IF kGroups \in DOMAIN f /\ groupsOk
                    THEN [g \in DOMAIN f[kGroups].v |->
                             [k \in DOMAIN f[kGroups].v[g].v |-> f[kGroups].v[g].v[k].v]]
                    ELSE <<>>]

\* json.Unmarshal into a map[string]string (the legacy format)
UnmarshalLegacy(doc) ==
    LET f == doc.v
        ok == \A n \in DOMAIN f : f[n].t = "string"
    IN  [err |-> IF ok THEN nil ELSE <<"json: cannot unmarshal">>,
         legacy |-> IF ok THEN [n \in DOMAIN f |-> f[n].v] ELSE <<>>]

\* Storage.LoadData: [Services, Groups, err]
LoadData(f) ==
    IF f = NoFile
    THEN [Services |-> <<>>, Groups |-> <<>>, err |-> nil]
    ELSE LET u == UnmarshalStorageData(f)
         IN  IF u.err = nil /\ ~u.servicesNil
             THEN [Services |-> u.Services, Groups |-> u.Groups, err |-> nil]
             ELSE LET l == UnmarshalLegacy(f)
                  IN  IF l.err # nil
                      THEN [Services |-> <<>>, Groups |-> <<>>, err |-> l.err]
                      ELSE [Services |-> l.legacy, Groups |-> <<>>, err |-> nil]

\* Storage.SaveData: the file it writes
SaveData(data) == Marshal(data)

\* the outcome of a call that writes: the file after it, the error it
\* returns, whether it reached SaveData and what it passed to it
Failed(f, err) ==
    [file |-> f, err |-> err, saved |-> FALSE,
     data |-> [Services |-> <<>>, Groups |-> <<>>]]
Saved(data) ==
    [file |-> SaveData(data), err |-> nil, saved |-> TRUE,
     data |-> [Services |-> data.Services, Groups |-> data.Groups]]

\* Storage.Save
StorageSave(f, services) ==
    LET data == LoadData(f)
    IN  IF data.err # nil
        THEN Failed(f, data.err)
        ELSE Saved([Services |-> services, Groups |-> data.Groups])

\* Storage.Add
StorageAdd(f, name, command) ==
    LET data == LoadData(f)
    IN  IF data.err # nil
        THEN Failed(f, data.err)
        ELSE StorageSave(f, Put(data.Services, name, command))

\* Storage.Delete
StorageDelete(f, name) ==
    LET data == LoadData(f)
    IN  IF data.err # nil
        THEN Failed(f, data.err)
        ELSE IF name \notin DOMAIN data.Services
        THEN Failed(f, <<"service '">> \o name \o <<"' not found">>)
        ELSE StorageSave(f, Drop(data.Services, name))

\* Storage.AddGroup
AddGroup(f, name, list) ==
    LET data == LoadData(f)
    IN  IF data.err # nil
        THEN Failed(f, data.err)
        ELSE IF name \in DOMAIN data.Services
        THEN Failed(f, <<"a service with name '">> \o name
                       \o <<"' already exists, cannot create group with same name">>)
        ELSE IF \E k \in DOMAIN list : list[k] \notin DOMAIN data.Services
        THEN Failed(f, <<"service '">>
                       \o list[CHOOSE k \in DOMAIN list :
                                  /\ list[k] \notin DOMAIN data.Services
                                  /\ \A j \in 1..(k - 1) : list[j] \in DOMAIN data.Services]
                       \o <<"' not found">>)
        ELSE Saved([Services |-> data.Services, Groups |-> Put(data.Groups, name, list)])

\* Storage.DeleteGroup
DeleteGroup(f, name) ==
    LET data == LoadData(f)
    IN  IF data.err # nil
        THEN Failed(f, data.err)
        ELSE IF name \notin DOMAIN data.Groups
        THEN Failed(f, <<"group '">> \o name \o <<"' not found">>)
        ELSE Saved([Services |-> data.Services, Groups |-> Drop(data.Groups, name)])

\* Storage.CheckNameConflict (FALSE when the file does not load)
CheckNameConflict(f, name) ==
    LET data == LoadData(f)
    IN  data.err = nil /\ name \in DOMAIN data.Services /\ name \in DOMAIN data.Groups

----------------------------------------------------------------------------
(* Package main: Service (src/manager.go).                                 *)

StatusConnecting == "connecting"
StatusHealthy == "healthy"
StatusError == "error"

maxReconnects == 10
\* in milliseconds
baseBackoff == 2000
maxBackoff == 30000
errorHistoryCap == 10
logHistoryCap == 100

\* the Service that Manager.Start builds
NewService(name, command, ports) ==
    [Name |-> name, Command |-> command,
     LocalPort |-> ports[1], RemotePort |-> ports[2],
     Status |-> StatusConnecting, Error |-> nil,
     ReconnectCount |-> 0, ErrorHistory |-> <<>>, LogHistory |-> <<>>]

\* Service.addError: push on the ring of the last 10, set Error and Status
addError(s, msg) ==
    LET h == Append(s.ErrorHistory, msg)
    IN  [s EXCEPT !.ErrorHistory =
                      IF Len(h) > errorHistoryCap
                      THEN SubSeq(h, Len(h) - errorHistoryCap + 1, Len(h))
                      ELSE h,
                  !.Error = msg,
                  !.Status = StatusError]

\* A ring that drops the newest entry, not the oldest, when it is full.
addLogDropsNewest(s, msg, isError) ==
    IF \A k \in 1..Len(msg) : msg[k] \in Space
    THEN s
    ELSE IF Len(s.LogHistory) >= logHistoryCap
    THEN s
    ELSE [s EXCEPT !.LogHistory = Append(@, [Message |-> msg, IsError |-> isError])]

\* Service.addLog: skip a message that is blank, push on the ring of the
\* last 100
addLog(s, msg, isError) ==
    IF \A k \in 1..Len(msg) : msg[k] \in Space
    THEN s
    ELSE LET h == Append(s.LogHistory, [Message |-> msg, IsError |-> isError])
         IN  [s EXCEPT !.LogHistory =
                           IF Len(h) > logHistoryCap
                           THEN SubSeq(h, Len(h) - logHistoryCap + 1, Len(h))
                           ELSE h]

\* Service.GetSnapshot
GetSnapshot(s) ==
    [Name |-> s.Name, Command |-> s.Command,
     LocalPort |-> s.LocalPort, RemotePort |-> s.RemotePort,
     Status |-> s.Status, Error |-> s.Error,
     ReconnectCount |-> s.ReconnectCount, ErrorHistory |-> s.ErrorHistory,
     LogHistory |-> s.LogHistory]

MaxReconnectMsg ==
    <<"Max reconnect attempts (">> \o Itoa(maxReconnects) \o <<") exceeded">>
StartFailedMsg == <<"Start failed: ", "exec error">>
StartCancelledMsg == <<"Start failed: ", "context canceled">>
ProcessDiedMsg == <<"Process died: ", "exit status 1">>
\* extractErrorMessage of a classified stderr line
StderrMsg == <<"error: unable to forward">>

----------------------------------------------------------------------------
(* Package service: State (src/internal/service/types.go) and the storage  *)
(* it is started from.                                                     *)

SvcStatusConnecting == "CONNECTING"
StatusOnline == "ONLINE"
StatusReconnecting == "RECONNECTING"
SvcStatusError == "ERROR"

DefaultHealthCheckFailCount == 2
maxRetries == 3

\* Storage.GetService: <<command, err>>
GetService(name) ==
    IF name \in DOMAIN Catalog
    THEN <<Catalog[name], nil>>
    ELSE <<nil, <<"service \"">> \o name \o <<"\" not found">>>>

\* time.Time{}, the zero time, and time.Now(), which is never the zero time
ZeroTime == 0
Now == 1

\* the State that Manager.Start builds
NewState(name, command, ports) ==
    [Name |-> name, Status |-> SvcStatusConnecting,
     LocalPort |-> ports[1], RemotePort |-> ports[2], Command |-> command,
     LastError |-> nil, ErrorTime |-> ZeroTime, OnlineTime |-> ZeroTime,
     HealthOK |-> FALSE]

\* A SetStatus that leaves OnlineTime alone.
SetStatusKeepsTime(s, status) ==
    [s EXCEPT !.Status = status,
              !.HealthOK = IF status = StatusOnline THEN TRUE ELSE @]

SetStatus(s, status) ==
    [s EXCEPT !.Status = status,
              !.OnlineTime = IF status = StatusOnline THEN Now ELSE @,
              !.HealthOK = IF status = StatusOnline THEN TRUE ELSE @]

\* State.GetSnapshot
StateGetSnapshot(s) ==
    [Name |-> s.Name, Status |-> s.Status,
     LocalPort |-> s.LocalPort, RemotePort |-> s.RemotePort, Command |-> s.Command,
     LastError |-> s.LastError, ErrorTime |-> s.ErrorTime,
     OnlineTime |-> s.OnlineTime, HealthOK |-> s.HealthOK]

\* time.Now() at a SetError of a State whose last error was at time t: a
\* later time; the times of the errors of one State are 1, 2, ... and are
\* told apart up to MaxErrorTime
Later(t) == IF t < MaxErrorTime THEN t + 1 ELSE t

SetError(s, errMsg) ==
    [s EXCEPT !.LastError = errMsg, !.ErrorTime = Later(@),
              !.Status = SvcStatusError, !.HealthOK = FALSE]

SetHealth(s, healthy) == [s EXCEPT !.HealthOK = healthy]

PortBusyMsg(port) ==
    <<"port ">> \o port \o <<" is still in use after ">> \o Itoa(maxRetries)
    \o <<" cleanup attempts", " - please manually kill processes using this port">>

ConnectionLostMsg == <<"Connection lost - health check failed">>
ConnectionClosedMsg == <<"Connection closed">>
ExitStatusMsg == <<"exit status 1">>
ExecErrorMsg == <<"exec error">>
ContextCanceledMsg == <<"context canceled">>

----------------------------------------------------------------------------
(* State.                                                                  *)

VARIABLES
    services,   \* Manager.services: name -> id of its Service
    svcs,       \* the Service objects, by id (pointer identity)
    cancelled,  \* per Service: its cancel func has been called
    rootDone,   \* the root context of handleRun is cancelled (signal)
    run,        \* per Service: its runService goroutine
    procs,      \* per Service: its child process and the lines in flight
    made,       \* the number of Services built so far
    call,       \* the thread that calls the Manager (CLI, then UI loop)
    seen,       \* name -> what the latest GetStates result with it showed
    env,        \* the environment: the child failures left, the kinds of
                \* child, the ports that foreign processes hold, the values
                \* of rand.Float64() in thousandths
    checker,    \* per State of package service: its HealthChecker goroutine
    main,       \* the run command (handleRun): where it is, what it has left
    ui,         \* the fields of the UI that its Update reads and writes
    file,       \* the catalog file (services.json) as it is on disk
    locks       \* m.mu and each svc.mu: who holds and who wants them, and the
                \* steps each goroutine has left in the method it runs

vars == <<services, svcs, cancelled, rootDone, run, procs, made, call, seen, env,
          checker, main, ui, file, locks>>

\* the registry lock m.mu; a Service's lock svc.mu goes by the Service's name
Mu == <<"m", ".", "m", "u">>
LockNames == {nDb, nWeb}

\* the goroutine of Update ("ui"), that of a tea.Cmd ("cmd"), and the
\* goroutines that Start spawns for db ("g1") and for web ("g2")
Callers == {"ui", "cmd"}
GoOf == ("g1" :> nDb) @@ ("g2" :> nWeb)
Threads == Callers \cup DOMAIN GoOf

\* sync.RWMutex: w the writer that holds it, r the readers that hold it,
\* want the writers that have called Lock and wait for the readers to leave
FreeLock == [w |-> "", r |-> {}, want |-> {}]
IdleThread == [op |-> "", todo |-> <<>>]

\* impl: package main ("main") or package service ("service"); reg: the
\* names in m.services; live: the names whose goroutines run
NoLocks ==
    [impl |-> "main", reg |-> {}, live |-> {},
     lk |-> [l \in {Mu} \cup LockNames |-> FreeLock],
     th |-> [t \in Threads |-> IdleThread]]

Insts == DOMAIN svcs

\* ctx.Done() / ctx.Err() != nil of the Service's context
Done(i) == cancelled[i] \/ rootDone

\* child: the command's process; leaked: a descendant of it outlives it;
\* pipe: that descendant holds the write end of a pipe Wait drains;
\* errLine, fwdLine: a line a monitor has read and not yet acted on;
\* said: this child has written its first line; wasOnline: it exited by
\* itself while its State was ONLINE and its context not done
NoProc == [child |-> "none", leaked |-> FALSE, pipe |-> FALSE, errLine |-> FALSE,
           fwdLine |-> FALSE, said |-> FALSE, wasOnline |-> FALSE]

Alive(i) == procs[i].child \in {"shell", "tree", "bg"}

IdleCall == [op |-> "none", pc |-> "idle", name |-> nil, err |-> nil,
             before |-> <<>>, madeBefore |-> 0, insts |-> {}, result |-> <<>>,
             attempt |-> 0, log |-> <<>>]

\* Services that nothing refers to any more: not in the map, not held by a
\* call, runner returned, no child, no process left, no line in flight.
\* Go's collector reclaims them; the model drops them before any other step.
Garbage ==
    {i \in Insts :
        /\ \A n \in DOMAIN services : services[n] # i
        /\ i \notin call.insts
        /\ run[i].pc = "done"
        /\ i \in DOMAIN checker => checker[i].pc = "done"
        /\ procs[i] = NoProc}

Collect ==
    /\ Garbage # {}
    /\ svcs' = [i \in Insts \ Garbage |-> svcs[i]]
    /\ cancelled' = [i \in Insts \ Garbage |-> cancelled[i]]
    /\ run' = [i \in Insts \ Garbage |-> run[i]]
    /\ procs' = [i \in Insts \ Garbage |-> procs[i]]
    /\ checker' = [i \in DOMAIN checker \ Garbage |-> checker[i]]
    /\ UNCHANGED <<services, rootDone, main, ui, file, made, call, seen, env, locks>>

Settled == Garbage = {}

InitCommon ==
    /\ services = <<>>
    /\ svcs = <<>>
    /\ cancelled = <<>>
    /\ rootDone = FALSE
    /\ run = <<>>
    /\ procs = <<>>
    /\ made = 0
    /\ call = IdleCall
    /\ seen = <<>>
    /\ checker = <<>>
    /\ main = nil
    /\ ui = nil
    /\ file = nil
    /\ locks = NoLocks

\* the fleet: children run until something kills them
Init ==
    /\ InitCommon
    /\ env = [faults |-> 0, lines |-> 0, kinds |-> {"shell", "tree"},
              track |-> FALSE, held |-> {}, rands |-> {500}]

\* one service whose child may fail until the reconnect ceiling is reached
InitMax ==
    /\ InitCommon
    /\ env = [faults |-> maxReconnects, lines |-> MaxLines, kinds |-> {"shell"},
              track |-> FALSE, held |-> {}, rands |-> {500}]

\* one service under a failing child
InitRun ==
    /\ InitCommon
    /\ env = [faults |-> MaxFaults, lines |-> 0, kinds |-> {"shell"},
              track |-> TRUE, held |-> {}, rands |-> {500}]

----------------------------------------------------------------------------
(* The port reclaimer, as the fleet sees it.                               *)

KillOne(p) ==
    [p EXCEPT !.child = IF p.child \in {"shell", "tree", "bg"} THEN "dead1"
                        ELSE p.child,
              !.leaked = FALSE, !.pipe = FALSE]

\* killProcessUsingPort on each of `ports`: kill -9 of every process lsof /
\* netstat finds there.  Best effort: a child that has not bound the port
\* yet, or a missing lsof, leaves a process alive, so any subset of the
\* fleet's own processes on these ports is killed.
killProcessUsingPort(ports) ==
    \E victims \in SUBSET {i \in Insts : svcs[i].LocalPort \in ports
                                          /\ (Alive(i) \/ procs[i].leaked)} :
        procs' = [i \in Insts |-> IF i \in victims THEN KillOne(procs[i]) ELSE procs[i]]

----------------------------------------------------------------------------
(* Package main: Manager (src/manager.go).  Its methods are called by one  *)
(* thread at a time: handleRun's loop of Start calls, then the UI loop.    *)

\* the error Manager.Start returns before it touches anything (nil: none)
StartError(name) ==
    LET g == StorageGet(name)
    IN  IF validateServiceName(name) # nil
        THEN <<"invalid service name: ">> \o validateServiceName(name)
        ELSE IF g[2] # nil
        THEN g[2]
        ELSE IF validateCommand(g[1]) # nil
        THEN <<"invalid command for service '">> \o name \o <<"': ">>
             \o validateCommand(g[1])
        ELSE IF ExtractPorts(g[1])[1] = nil
        THEN <<"could not extract ports from command">>
        ELSE nil

\* A Start that goes on to clean the port up and build the Service although
\* a check has failed, and reports the failure afterwards.
StartBodyUnchecked(name, op) ==
    IF name \in DOMAIN Catalog
    THEN /\ made < MaxInst
         /\ killProcessUsingPort({ExtractPorts(Catalog[name])[1]})
         /\ call' = [call EXCEPT !.op = op, !.pc = "insert", !.name = name,
                                 !.err = StartError(name), !.before = services,
                                 !.madeBefore = made]
    ELSE /\ call' = [call EXCEPT !.op = op, !.pc = "ret", !.name = name,
                                 !.err = StartError(name), !.before = services,
                                 !.madeBefore = made]
         /\ UNCHANGED procs

\* Manager.Start up to the 300 ms sleep: validate, load, extract the ports,
\* clean the local port up
StartBody(name, op) ==
    LET e == StartError(name)
    IN  IF e # nil
        THEN /\ call' = [call EXCEPT !.op = op, !.pc = "ret", !.name = name,
                                     !.err = e, !.before = services, !.madeBefore = made]
             /\ UNCHANGED procs
        ELSE /\ made < MaxInst
             /\ killProcessUsingPort({ExtractPorts(Catalog[name])[1]})
             /\ call' = [call EXCEPT !.op = op, !.pc = "insert", !.name = name,
                                     !.err = nil, !.before = services, !.madeBefore = made]

Start(name) ==
    /\ Settled
    /\ call.pc = "idle"
    /\ StartBody(name, "Start")
    /\ UNCHANGED <<services, svcs, cancelled, rootDone, main, ui, file, run, made, seen, env, checker,
                   locks>>

\* Manager.Start from "Create service" on: build the Service, store it,
\* go m.runService
StartInsert ==
    /\ Settled
    /\ call.pc = "insert"
    /\ LET id == made + 1
       IN  /\ svcs' = (id :> NewService(call.name, Catalog[call.name],
                                        ExtractPorts(Catalog[call.name]))) @@ svcs
           /\ cancelled' = (id :> FALSE) @@ cancelled
           /\ run' = (id :> [pc |-> "loop", isFirstRun |-> TRUE, reconnectCount |-> 0,
                             backoff |-> 0, spawns |-> 0]) @@ run
           /\ procs' = (id :> NoProc) @@ procs
           /\ services' = (call.name :> id) @@ services
           /\ made' = id
    /\ call' = [call EXCEPT !.pc = "ret"]
    /\ UNCHANGED <<rootDone, main, ui, file, seen, env, checker, locks>>

\* Manager.AddService, whatever becomes of the UI that calls it
AddServiceCall(name) ==
    /\ Settled
    /\ call.pc = "idle"
    /\ IF name \in DOMAIN services
       THEN /\ call' = [call EXCEPT !.op = "AddService", !.pc = "ret", !.name = name,
                           !.err = <<"service '">> \o name \o <<"' is already running">>,
                           !.before = services, !.madeBefore = made]
            /\ UNCHANGED procs
       ELSE IF StorageGet(name)[2] # nil
       THEN /\ call' = [call EXCEPT !.op = "AddService", !.pc = "ret", !.name = name,
                           !.err = <<"service '">> \o name \o <<"' not found in storage">>,
                           !.before = services, !.madeBefore = made]
            /\ UNCHANGED procs
       ELSE StartBody(name, "AddService")
    /\ UNCHANGED <<services, svcs, cancelled, rootDone, main, file, run, made, seen, env, checker,
                   locks>>

AddService(name) == AddServiceCall(name) /\ UNCHANGED ui

\* Manager.Stop under m.mu: look the name up and delete it
StopDetach(name, op) ==
    /\ Settled
    /\ call.pc = "idle"
    /\ IF name \in DOMAIN services
       THEN /\ services' = [n \in DOMAIN services \ {name} |-> services[n]]
            /\ call' = [call EXCEPT !.op = op, !.pc = "cancel", !.name = name,
                                    !.err = nil, !.before = services, !.madeBefore = made,
                                    !.insts = {services[name]}]
       ELSE /\ call' = [call EXCEPT !.op = op, !.name = name, !.err = nil,
                                    !.before = services, !.madeBefore = made,
                                    !.pc = IF op = "Restart" THEN "gap" ELSE "ret"]
            /\ UNCHANGED services
    /\ UNCHANGED <<svcs, cancelled, rootDone, main, ui, file, run, procs, made, seen, env, checker,
                   locks>>

Stop(name) == StopDetach(name, "Stop")

\* Manager.Stop: svc.cancel()
StopCancel ==
    /\ Settled
    /\ call.pc = "cancel"
    /\ cancelled' = [i \in Insts |-> cancelled[i] \/ i \in call.insts]
    /\ call' = [call EXCEPT !.pc = "reclaim"]
    /\ UNCHANGED <<services, svcs, rootDone, main, ui, file, run, procs, made, seen, env, checker,
                   locks>>

\* Manager.Stop: after 300 ms, clean the port up
StopReclaim ==
    /\ Settled
    /\ call.pc = "reclaim"
    /\ killProcessUsingPort({svcs[i].LocalPort : i \in call.insts})
    /\ call' = [call EXCEPT !.pc = IF call.op = "Restart" THEN "gap" ELSE "ret",
                            !.insts = {}]
    /\ UNCHANGED <<services, svcs, cancelled, rootDone, main, ui, file, run, made, seen, env, checker,
                   locks>>

\* Manager.Restart: Stop, 500 ms, Start
Restart(name) == StopDetach(name, "Restart")

RestartStart ==
    /\ Settled
    /\ call.pc = "gap"
    /\ StartBody(call.name, "Restart")
    /\ UNCHANGED <<services, svcs, cancelled, rootDone, main, ui, file, run, made, seen, env, checker,
                   locks>>

\* A StopAll that cancels every Service and leaves the map as it is.
StopAllKeepsMap ==
    /\ Settled
    /\ call.pc = "idle"
    /\ cancelled' = [i \in Insts |->
                        cancelled[i] \/ \E n \in DOMAIN services : services[n] = i]
    /\ call' = [call EXCEPT !.op = "StopAll", !.pc = "reclaimAll", !.name = nil,
                            !.err = nil, !.before = services, !.madeBefore = made,
                            !.insts = {services[n] : n \in DOMAIN services}]
    /\ UNCHANGED <<services, svcs, rootDone, main, ui, file, run, procs, made, seen, env, checker,
                   locks>>

\* Manager.StopAll under m.mu: cancel every Service, reset the map
StopAll ==
    /\ Settled
    /\ call.pc = "idle"
    /\ cancelled' = [i \in Insts |->
                        cancelled[i] \/ \E n \in DOMAIN services : services[n] = i]
    /\ services' = <<>>
    /\ call' = [call EXCEPT !.op = "StopAll", !.pc = "reclaimAll", !.name = nil,
                            !.err = nil, !.before = services, !.madeBefore = made,
                            !.insts = {services[n] : n \in DOMAIN services}]
    /\ UNCHANGED <<svcs, rootDone, main, ui, file, run, procs, made, seen, env, checker, locks>>

\* Manager.StopAll: after 300 ms, clean every port up
StopAllReclaim ==
    /\ Settled
    /\ call.pc = "reclaimAll"
    /\ killProcessUsingPort({svcs[i].LocalPort : i \in call.insts})
    /\ call' = [call EXCEPT !.pc = "ret", !.insts = {}]
    /\ UNCHANGED <<services, svcs, cancelled, rootDone, main, ui, file, run, made, seen, env, checker,
                   locks>>

\* the names of S in ascending order (sort.Slice by Name)
RECURSIVE SortNames(_)
SortNames(S) ==
    IF S = {}
    THEN <<>>
    ELSE LET m == CHOOSE x \in S : \A y \in S \ {x} : StrLess(x, y)
         IN  <<m>> \o SortNames(S \ {m})

\* Manager.GetStates: a snapshot of every entry, sorted by name
GetStatesResult ==
    LET names == SortNames(DOMAIN services)
    IN  [k \in 1..Len(names) |-> GetSnapshot(svcs[services[names[k]]])]

GetStates ==
    /\ Settled
    /\ call.pc = "idle"
    /\ call' = [call EXCEPT !.op = "GetStates", !.pc = "ret", !.name = nil,
                            !.err = nil, !.before = services, !.madeBefore = made,
                            !.result = GetStatesResult]
    /\ seen' = IF env.track
               THEN [n \in DOMAIN seen \cup DOMAIN services |->
                        IF n \in DOMAIN services
                        THEN [id |-> services[n],
                              ReconnectCount |-> svcs[services[n]].ReconnectCount,
                              prevId |-> IF n \in DOMAIN seen THEN seen[n].id ELSE 0,
                              prev |-> IF n \in DOMAIN seen
                                       THEN seen[n].ReconnectCount ELSE -1]
                        ELSE seen[n]]
               ELSE seen
    /\ UNCHANGED <<services, svcs, cancelled, rootDone, main, ui, file, run, procs, made, env,
                   checker, locks>>

\* the call returns to its caller
Return ==
    /\ Settled
    /\ call.pc = "ret"
    /\ call' = IdleCall
    /\ UNCHANGED <<services, svcs, cancelled, rootDone, main, ui, file, run, procs, made, seen, env, checker,
                   locks>>

----------------------------------------------------------------------------
(* Package main: the runner goroutine of a Service (Manager.runService,    *)
(* Manager.runOnce) and its output monitors.                               *)

\* A runOnce that also resets the reconnect counter.
ConnectingResetsCount(s) ==
    [s EXCEPT !.Status = StatusConnecting, !.Error = nil, !.ReconnectCount = 0]

\* Manager.runOnce, first lines: Status = connecting, Error = ""
Connecting(s) == [s EXCEPT !.Status = StatusConnecting, !.Error = nil]

\* the integer part of a / d (the conversion of a float64 to a Duration)
Trunc(a, d) == IF a >= 0 THEN a \div d ELSE -((-a) \div d)

RECURSIVE Pow2(_)
Pow2(k) == IF k = 0 THEN 1 ELSE 2 * Pow2(k - 1)

\* A backoff that is not capped.
BackoffUncapped(reconnectCount, rand) ==
    LET b == baseBackoff * Pow2(reconnectCount - 1)
    IN  b + Trunc(b * (2 * rand - 1000), 10000)

\* Manager.runService, "Calculate exponential backoff with jitter":
\* baseBackoff << (reconnectCount - 1), at most maxBackoff, plus
\* backoff * 0.1 * (rand * 2 - 1); rand is rand.Float64() in thousandths
Backoff(reconnectCount, rand) ==
    LET b == baseBackoff * Pow2(reconnectCount - 1)
        capped == IF b > maxBackoff THEN maxBackoff ELSE b
    IN  capped + Trunc(capped * (2 * rand - 1000), 10000)

\* Manager.runService, top of the loop: leave when the context is done; on
\* the first run go straight to runOnce; otherwise count the reconnect and
\* give up at maxReconnects or start the backoff.  reconnectCount and
\* backoff are the local variables of the iteration (backoff 0: none)
RunLoop(i) ==
    /\ Settled
    /\ run[i].pc = "loop"
    /\ IF Done(i)
       THEN /\ run' = [run EXCEPT ![i].pc = "done"]
            /\ UNCHANGED svcs
       ELSE IF run[i].isFirstRun
       THEN /\ run' = [run EXCEPT ![i].pc = "spawn", ![i].isFirstRun = FALSE]
            /\ svcs' = [svcs EXCEPT ![i] = Connecting(@)]
       ELSE IF svcs[i].ReconnectCount + 1 >= maxReconnects
       THEN /\ run' = [run EXCEPT ![i].pc = "done",
                                  ![i].reconnectCount = svcs[i].ReconnectCount + 1,
                                  ![i].backoff = 0]
            /\ svcs' = [svcs EXCEPT ![i].ReconnectCount = @ + 1,
                                    ![i].Status = StatusError,
                                    ![i].Error = MaxReconnectMsg]
       ELSE /\ \E rand \in env.rands :
                   run' = [run EXCEPT
                              ![i].pc = "backoff",
                              ![i].reconnectCount = svcs[i].ReconnectCount + 1,
                              ![i].backoff = Backoff(svcs[i].ReconnectCount + 1, rand)]
            /\ svcs' = [svcs EXCEPT ![i].ReconnectCount = @ + 1]
    /\ UNCHANGED <<services, cancelled, rootDone, main, ui, file, procs, made, call, seen, env, checker,
                   locks>>

\* Manager.runService, the backoff select: the context is done, or the
\* timer fires and runOnce begins
RunBackoff(i) ==
    /\ Settled
    /\ run[i].pc = "backoff"
    /\ \/ /\ Done(i)
          /\ run' = [run EXCEPT ![i].pc = "done"]
          /\ UNCHANGED svcs
       \/ /\ run' = [run EXCEPT ![i].pc = "spawn"]
          /\ svcs' = [svcs EXCEPT ![i] = Connecting(@)]
    /\ UNCHANGED <<services, cancelled, rootDone, main, ui, file, procs, made, call, seen, env, checker,
                   locks>>

\* Manager.runOnce, cmd.Start(): exec.CommandContext refuses to start under
\* a finished context; otherwise the start fails or a child runs, a single
\* process ("shell") or a shell with a descendant ("tree").  spawns counts
\* the calls of cmd.Start (it is not a variable of the code)
RunSpawn(i) ==
    /\ Settled
    /\ run[i].pc = "spawn"
    /\ \/ /\ Done(i)
          /\ svcs' = [svcs EXCEPT ![i] = addError(@, StartCancelledMsg)]
          /\ run' = [run EXCEPT ![i].pc = "loop", ![i].spawns = @ + 1]
          /\ UNCHANGED <<procs, env>>
       \/ /\ ~Done(i)
          /\ env.faults > 0
          /\ env' = [env EXCEPT !.faults = @ - 1]
          /\ svcs' = [svcs EXCEPT ![i] = addError(@, StartFailedMsg)]
          /\ run' = [run EXCEPT ![i].pc = "loop", ![i].spawns = @ + 1]
          /\ UNCHANGED procs
       \/ /\ ~Done(i)
          /\ \E kind \in env.kinds :
                 procs' = [procs EXCEPT ![i].child = kind, ![i].said = FALSE]
          /\ run' = [run EXCEPT ![i].pc = "wait", ![i].spawns = @ + 1]
          /\ UNCHANGED <<svcs, env>>
    /\ UNCHANGED <<services, cancelled, rootDone, main, ui, file, made, call, seen, checker, locks>>

\* Manager.runOnce, cmd.Wait() has returned: record "Process died" when the
\* child failed and the context is not done
RunWait(i) ==
    /\ Settled
    /\ run[i].pc = "wait"
    /\ procs[i].child \in {"dead0", "dead1"}
    /\ svcs' = [svcs EXCEPT ![i] =
                    IF procs[i].child = "dead1" /\ ~Done(i)
                    THEN addError(@, ProcessDiedMsg)
                    ELSE @]
    /\ procs' = [procs EXCEPT ![i].child = "none"]
    /\ run' = [run EXCEPT ![i].pc = "loop"]
    /\ UNCHANGED <<services, cancelled, rootDone, main, ui, file, made, call, seen, env, checker,
                   locks>>

\* Manager.monitorOutput on stderr: a line the classifier takes for an error
MonitorStderr(i) ==
    /\ Settled
    /\ procs[i].errLine
    /\ svcs' = [svcs EXCEPT ![i] = addError(@, StderrMsg)]
    /\ procs' = [procs EXCEPT ![i].errLine = FALSE]
    /\ UNCHANGED <<services, cancelled, rootDone, main, ui, file, run, made, call, seen, env, checker,
                   locks>>

\* Manager.monitorOutput: a line that contains "Forwarding from"
MonitorStdout(i) ==
    /\ Settled
    /\ procs[i].fwdLine
    /\ svcs' = [svcs EXCEPT ![i] =
                    IF @.Status # StatusHealthy
                    THEN [@ EXCEPT !.Status = StatusHealthy, !.Error = nil]
                    ELSE @]
    /\ procs' = [procs EXCEPT ![i].fwdLine = FALSE]
    /\ UNCHANGED <<services, cancelled, rootDone, main, ui, file, run, made, call, seen, env, checker,
                   locks>>

----------------------------------------------------------------------------
(* The environment: the child processes and the signal.                    *)

\* the child exits by itself, with status 0 or not
ChildExit(i) ==
    /\ Settled
    /\ Alive(i)
    /\ env.faults > 0
    /\ env' = [env EXCEPT !.faults = @ - 1]
    /\ \E st \in {"dead0", "dead1"} :
           procs' = [procs EXCEPT ![i].child = st,
                                  ![i].wasOnline = svcs[i].Status = StatusOnline /\ ~Done(i)]
    /\ UNCHANGED <<services, svcs, cancelled, rootDone, main, ui, file, run, made, call, seen, checker,
                   locks>>

\* exec.CommandContext: once the context is done the command's process (the
\* shell, not its process group) is killed; a descendant lives on, with
\* ("tree") or without ("bg") the shell's output pipes
CtxKill(i) ==
    /\ Settled
    /\ Alive(i)
    /\ Done(i)
    /\ procs' = [procs EXCEPT ![i].child = "dead1",
                              ![i].leaked = procs[i].child \in {"tree", "bg"},
                              ![i].pipe = procs[i].child = "tree"]
    /\ UNCHANGED <<services, svcs, cancelled, rootDone, main, ui, file, run, made, call, seen, env, checker,
                   locks>>

\* the kill of exec.CommandContext, for the Service i if there is one
KillStep(i) == i \in Insts /\ CtxKill(i)

\* the child writes an error line to stderr; a monitor reads it
ChildStderr(i) ==
    /\ Settled
    /\ Alive(i)
    /\ ~procs[i].errLine
    /\ env.lines > 0
    /\ env' = [env EXCEPT !.lines = @ - 1]
    /\ procs' = [procs EXCEPT ![i].errLine = TRUE]
    /\ UNCHANGED <<services, svcs, cancelled, rootDone, main, ui, file, run, made, call, seen, checker,
                   locks>>

\* the child writes "Forwarding from ..." to stdout; a monitor reads it
ChildStdout(i) ==
    /\ Settled
    /\ Alive(i)
    /\ ~procs[i].fwdLine
    /\ env.lines > 0
    /\ env' = [env EXCEPT !.lines = @ - 1]
    /\ procs' = [procs EXCEPT ![i].fwdLine = TRUE]
    /\ UNCHANGED <<services, svcs, cancelled, rootDone, main, ui, file, run, made, call, seen, checker,
                   locks>>

\* SIGINT / SIGTERM: handleRun's goroutine cancels the root context
Signal ==
    /\ Settled
    /\ ~rootDone
    /\ rootDone' = TRUE
    /\ UNCHANGED <<services, svcs, cancelled, run, procs, made, call, seen, env, checker,
                   main, ui, file, locks>>

----------------------------------------------------------------------------
(* Package service: Manager (src/unnamed/part_010).                        *)

\* netutil.IsPortInUse: can the port not be listened on
IsPortInUse(port) ==
    \/ port \in env.held
    \/ \E i \in Insts : svcs[i].LocalPort = port /\ (Alive(i) \/ procs[i].leaked)

\* netutil.IsPortOpen: does something accept connections on the port
IsPortOpen(port) == IsPortInUse(port)

\* KillProcessUsingPort: kill -9 of every process lsof / netstat finds on
\* the port.  Best effort: any subset of the fleet's own processes there is
\* killed, and a foreign holder is killed or survives.
KillProcessUsingPort(port) ==
    /\ killProcessUsingPort({port})
    /\ \E h \in {env.held, env.held \ {port}} : env' = [env EXCEPT !.held = h]

\* Manager.Start up to the retry loop: load the definition, extract the ports
ServiceStart(name) ==
    /\ Settled
    /\ call.pc = "idle"
    /\ LET g == GetService(name)
           c == [call EXCEPT !.op = "service.Start", !.name = name,
                             !.before = services, !.madeBefore = made]
       IN  IF g[2] # nil
           THEN call' = [c EXCEPT !.pc = "ret", !.err = g[2]]
           ELSE IF ExtractPorts(g[1])[1] = nil
           THEN call' = [c EXCEPT !.pc = "ret",
                            !.err = <<"failed to extract ports from command: ">> \o g[1]]
           ELSE /\ made < MaxInst
                /\ call' = [c EXCEPT !.pc = "probe", !.attempt = 1]
    /\ UNCHANGED <<services, svcs, cancelled, rootDone, main, ui, file, run, procs, made, seen, env,
                   checker, locks>>

LocalPortOf(name) == ExtractPorts(Catalog[name])[1]

\* the retry loop, top: leave it when the port is free
ServiceProbe ==
    /\ Settled
    /\ call.pc = "probe"
    /\ IF IsPortInUse(LocalPortOf(call.name))
       THEN call' = [call EXCEPT !.pc = "kill", !.log = Append(@, "busy")]
       ELSE call' = [call EXCEPT !.pc = "insert", !.log = Append(@, "free")]
    /\ UNCHANGED <<services, svcs, cancelled, rootDone, main, ui, file, run, procs, made, seen, env,
                   checker, locks>>

\* A retry loop that leaves after the last kill without looking at the port.
ServiceKillNoFinalProbe ==
    /\ Settled
    /\ call.pc = "kill"
    /\ KillProcessUsingPort(LocalPortOf(call.name))
    /\ call' = IF call.attempt = maxRetries
               THEN [call EXCEPT !.pc = "insert", !.log = Append(@, "kill")]
               ELSE [call EXCEPT !.pc = "probe", !.attempt = @ + 1,
                                 !.log = Append(@, "kill")]
    /\ UNCHANGED <<services, svcs, cancelled, rootDone, main, ui, file, run, made, seen, checker,
                   locks>>

\* the retry loop: kill what holds the port, sleep attempt * 500 ms
ServiceKill ==
    /\ Settled
    /\ call.pc = "kill"
    /\ KillProcessUsingPort(LocalPortOf(call.name))
    /\ call' = IF call.attempt = maxRetries
               THEN [call EXCEPT !.pc = "final", !.log = Append(@, "kill")]
               ELSE [call EXCEPT !.pc = "probe", !.attempt = @ + 1,
                                 !.log = Append(@, "kill")]
    /\ UNCHANGED <<services, svcs, cancelled, rootDone, main, ui, file, run, made, seen, checker,
                   locks>>

\* the retry loop, end of the last attempt: fail when the port is in use
ServiceFinalProbe ==
    /\ Settled
    /\ call.pc = "final"
    /\ IF IsPortInUse(LocalPortOf(call.name))
       THEN call' = [call EXCEPT !.pc = "ret", !.log = Append(@, "busy"),
                                 !.err = PortBusyMsg(LocalPortOf(call.name))]
       ELSE call' = [call EXCEPT !.pc = "insert", !.log = Append(@, "free")]
    /\ UNCHANGED <<services, svcs, cancelled, rootDone, main, ui, file, run, procs, made, seen, env,
                   checker, locks>>

\* Manager.Start from "Create service context" on: build the State, store
\* it, go runner.Run, go healthChecker.Start
ServiceInsert ==
    /\ Settled
    /\ call.pc = "insert"
    /\ LET id == made + 1
       IN  /\ svcs' = (id :> NewState(call.name, Catalog[call.name],
                                      ExtractPorts(Catalog[call.name]))) @@ svcs
           /\ cancelled' = (id :> FALSE) @@ cancelled
           /\ run' = (id :> [pc |-> "top", exitOnline |-> FALSE]) @@ run
           /\ procs' = (id :> NoProc) @@ procs
           /\ checker' = (id :> [pc |-> "idle", consecutiveFail |-> 0,
                                  streak |-> 0]) @@ checker
           /\ services' = (call.name :> id) @@ services
           /\ made' = id
    /\ call' = [call EXCEPT !.pc = "ret"]
    /\ UNCHANGED <<rootDone, main, ui, file, seen, env, locks>>

\* Manager.Stop under m.mu: look the name up
ServiceStop(name) ==
    /\ Settled
    /\ call.pc = "idle"
    /\ LET c == [call EXCEPT !.op = "service.Stop", !.name = name,
                             !.before = services, !.madeBefore = made]
       IN  IF name \in DOMAIN services
           THEN call' = [c EXCEPT !.pc = "cancel", !.insts = {services[name]}]
           ELSE call' = [c EXCEPT !.pc = "ret",
                            !.err = <<"service \"">> \o name \o <<"\" is not running">>]
    /\ UNCHANGED <<services, svcs, cancelled, rootDone, main, ui, file, run, procs, made, seen, env,
                   checker, locks>>

\* Manager.Stop: state.cancel()
ServiceStopCancel ==
    /\ Settled
    /\ call.pc = "cancel"
    /\ cancelled' = [i \in Insts |-> cancelled[i] \/ i \in call.insts]
    /\ call' = [call EXCEPT !.pc = "reclaim"]
    /\ UNCHANGED <<services, svcs, rootDone, main, ui, file, run, procs, made, seen, env, checker,
                   locks>>

\* Manager.Stop: after 300 ms, clean the port up
ServiceStopReclaim ==
    /\ Settled
    /\ call.pc = "reclaim"
    /\ KillProcessUsingPort(LocalPortOf(call.name))
    /\ call' = [call EXCEPT !.pc = "delete"]
    /\ UNCHANGED <<services, svcs, cancelled, rootDone, main, ui, file, run, made, seen, checker,
                   locks>>

\* Manager.Stop: delete(m.services, name)
ServiceStopDelete ==
    /\ Settled
    /\ call.pc = "delete"
    /\ services' = [n \in DOMAIN services \ {call.name} |-> services[n]]
    /\ call' = [call EXCEPT !.pc = "ret", !.insts = {}]
    /\ UNCHANGED <<svcs, cancelled, rootDone, main, ui, file, run, procs, made, seen, env, checker,
                   locks>>

\* Manager.IsRunning of package service
IsRunning(name) == name \in DOMAIN services

\* Manager.GetStates of package service: a snapshot of every entry, in the
\* order of the map iteration (any)
ServiceGetStates == {StateGetSnapshot(svcs[services[n]]) : n \in DOMAIN services}

\* the orders in which a range over a map with the keys S can visit them
Orders(S) ==
    {o \in [1..Cardinality(S) -> S] : \A n \in S : \E k \in DOMAIN o : o[k] = n}

\* Manager.GetStates of package service, called: the snapshots in the order
\* of the range over m.services
ServiceGetStatesCall ==
    /\ Settled
    /\ call.pc = "idle"
    /\ \E o \in Orders(DOMAIN services) :
           call' = [call EXCEPT !.op = "service.GetStates", !.pc = "ret",
                                !.before = services, !.madeBefore = made,
                                !.result = [k \in DOMAIN o |->
                                               StateGetSnapshot(svcs[services[o[k]]])]]
    /\ UNCHANGED <<services, svcs, cancelled, rootDone, main, ui, file, run, procs, made, seen, env,
                   checker, locks>>

\* Manager.StopAll under m.mu: cancel every State, reset the map
ServiceStopAll ==
    /\ Settled
    /\ call.pc = "idle"
    /\ cancelled' = [i \in Insts |->
                        cancelled[i] \/ \E n \in DOMAIN services : services[n] = i]
    /\ services' = <<>>
    /\ call' = [call EXCEPT !.op = "service.StopAll", !.pc = "reclaimAll",
                            !.before = services, !.madeBefore = made,
                            !.insts = {services[n] : n \in DOMAIN services}]
    /\ UNCHANGED <<svcs, rootDone, main, ui, file, run, procs, made, seen, env, checker, locks>>

\* Manager.StopAll: after 300 ms, clean the ports up (one service here)
ServiceStopAllReclaim ==
    /\ Settled
    /\ call.pc = "reclaimAll"
    /\ IF call.insts = {}
       THEN UNCHANGED <<procs, env>>
       ELSE \E i \in call.insts : KillProcessUsingPort(svcs[i].LocalPort)
    /\ call' = [call EXCEPT !.pc = "ret", !.insts = {}]
    /\ UNCHANGED <<services, svcs, cancelled, rootDone, main, ui, file, run, made, seen, checker,
                   locks>>

----------------------------------------------------------------------------
(* Package service: Runner (src/internal/service/runner.go).               *)

\* Runner.Run, top of the loop: return when the context is done (killProcess
\* finds r.cmd nil); otherwise enter runOnce, which sets CONNECTING
RunTop(i) ==
    /\ Settled
    /\ run[i].pc = "top"
    /\ IF Done(i)
       THEN /\ run' = [run EXCEPT ![i].pc = "done"]
            /\ UNCHANGED svcs
       ELSE /\ run' = [run EXCEPT ![i].pc = "start", ![i].exitOnline = FALSE]
            /\ svcs' = [svcs EXCEPT ![i] = SetStatus(@, SvcStatusConnecting)]
    /\ UNCHANGED <<services, cancelled, rootDone, main, ui, file, procs, made, call, seen, env,
                   checker, locks>>

\* Runner.runOnce, cmd.Start(): it fails (under a finished context, or by
\* itself), or a child runs in a process group of its own and
\* monitorOutput is started
RunOnceStart(i) ==
    /\ Settled
    /\ run[i].pc = "start"
    /\ \/ /\ Done(i)
          /\ svcs' = [svcs EXCEPT ![i] = SetError(@, ContextCanceledMsg)]
          /\ run' = [run EXCEPT ![i].pc = "pause"]
          /\ UNCHANGED <<procs, env>>
       \/ /\ ~Done(i)
          /\ env.faults > 0
          /\ env' = [env EXCEPT !.faults = @ - 1]
          /\ svcs' = [svcs EXCEPT ![i] = SetError(@, ExecErrorMsg)]
          /\ run' = [run EXCEPT ![i].pc = "pause"]
          /\ UNCHANGED procs
       \/ /\ ~Done(i)
          /\ \E kind \in env.kinds :
                 procs' = [procs EXCEPT ![i].child = kind, ![i].said = FALSE]
          /\ run' = [run EXCEPT ![i].pc = "grace"]
          /\ UNCHANGED <<svcs, env>>
    /\ UNCHANGED <<services, cancelled, rootDone, main, ui, file, made, call, seen, checker, locks>>

\* Runner.runOnce after the 500 ms sleep: still CONNECTING means ONLINE
RunOnceGrace(i) ==
    /\ Settled
    /\ run[i].pc = "grace"
    /\ svcs' = [svcs EXCEPT ![i] = IF @.Status = SvcStatusConnecting
                                   THEN SetStatus(@, StatusOnline)
                                   ELSE @]
    /\ run' = [run EXCEPT ![i].pc = "wait"]
    /\ UNCHANGED <<services, cancelled, rootDone, main, ui, file, procs, made, call, seen, env,
                   checker, locks>>

\* Runner.runOnce, cmd.Wait() has returned (the child is gone and the stderr
\* copier has seen the end of its pipe): r.cmd = nil; return when the
\* context is done, else SetError
RunOnceWait(i) ==
    /\ Settled
    /\ run[i].pc = "wait"
    /\ procs[i].child \in {"dead0", "dead1"}
    /\ ~procs[i].pipe
    /\ procs' = [procs EXCEPT ![i].child = "none", ![i].wasOnline = FALSE]
    /\ IF Done(i)
       THEN /\ run' = [run EXCEPT ![i].pc = "pause"]
            /\ UNCHANGED svcs
       ELSE /\ run' = [run EXCEPT ![i].pc = "reconn",
                                  ![i].exitOnline = procs[i].wasOnline]
            /\ svcs' = [svcs EXCEPT ![i] =
                            SetError(@, IF procs[i].child = "dead1"
                                        THEN ExitStatusMsg
                                        ELSE ConnectionClosedMsg)]
    /\ UNCHANGED <<services, cancelled, rootDone, main, ui, file, made, call, seen, env, checker,
                   locks>>

\* Runner.runOnce, last line: SetStatus(StatusReconnecting)
RunOnceReconnecting(i) ==
    /\ Settled
    /\ run[i].pc = "reconn"
    /\ svcs' = [svcs EXCEPT ![i] = SetStatus(@, StatusReconnecting)]
    /\ run' = [run EXCEPT ![i].pc = "pause"]
    /\ UNCHANGED <<services, cancelled, rootDone, main, ui, file, procs, made, call, seen, env,
                   checker, locks>>

\* Runner.Run, the wait before reconnecting: return when the context is done
\* (killProcess finds r.cmd nil), or go round after 2 s
RunPause(i) ==
    /\ Settled
    /\ run[i].pc = "pause"
    /\ \/ /\ Done(i)
          /\ run' = [run EXCEPT ![i].pc = "done"]
       \/ run' = [run EXCEPT ![i].pc = "top"]
    /\ UNCHANGED <<services, svcs, cancelled, rootDone, main, ui, file, procs, made, call, seen, env,
                   checker, locks>>

\* Runner.monitorOutput: the first line of a child's stdout means ONLINE
monitorOutput(i) ==
    /\ Settled
    /\ procs[i].fwdLine
    /\ svcs' = [svcs EXCEPT ![i] = SetStatus(@, StatusOnline)]
    /\ procs' = [procs EXCEPT ![i].fwdLine = FALSE]
    /\ UNCHANGED <<services, cancelled, rootDone, main, ui, file, run, made, call, seen, env,
                   checker, locks>>

\* the child writes its first line to stdout; monitorOutput reads it
ChildFirstLine(i) ==
    /\ Settled
    /\ Alive(i)
    /\ ~procs[i].said
    /\ env.lines > 0
    /\ env' = [env EXCEPT !.lines = @ - 1]
    /\ procs' = [procs EXCEPT ![i].fwdLine = TRUE, ![i].said = TRUE]
    /\ UNCHANGED <<services, svcs, cancelled, rootDone, main, ui, file, run, made, call, seen,
                   checker, locks>>

----------------------------------------------------------------------------
(* Package service: HealthChecker (src/unnamed/part_017).                  *)

\* HealthChecker.Start: the context is done
CheckerStop(i) ==
    /\ Settled
    /\ checker[i].pc = "idle"
    /\ Done(i)
    /\ checker' = [checker EXCEPT ![i].pc = "done"]
    /\ UNCHANGED <<services, svcs, cancelled, rootDone, main, ui, file, run, procs, made, call, seen,
                   env, locks>>

\* HealthChecker.check on a tick: unless the State is ONLINE, forget the
\* failures and return
CheckTick(i) ==
    /\ Settled
    /\ checker[i].pc = "idle"
    /\ checker' = IF svcs[i].Status # StatusOnline
                  THEN [checker EXCEPT ![i].consecutiveFail = 0]
                  ELSE [checker EXCEPT ![i].pc = "probe"]
    /\ UNCHANGED <<services, svcs, cancelled, rootDone, main, ui, file, run, procs, made, call, seen,
                   env, locks>>

\* A check that does not forget the failures when the port answers.
CheckProbeKeepsCount(i) ==
    /\ Settled
    /\ checker[i].pc = "probe"
    /\ \/ /\ IsPortOpen(svcs[i].LocalPort)
          /\ checker' = [checker EXCEPT ![i].pc = "idle", ![i].streak = 0]
          /\ svcs' = [svcs EXCEPT ![i] = SetHealth(@, TRUE)]
          /\ UNCHANGED env
       \/ /\ IF IsPortOpen(svcs[i].LocalPort)
             THEN env.faults > 0 /\ env' = [env EXCEPT !.faults = @ - 1]
             ELSE UNCHANGED env
          /\ checker' = [checker EXCEPT
                 ![i].consecutiveFail = @ + 1,
                 ![i].streak = IF @ < DefaultHealthCheckFailCount THEN @ + 1 ELSE @,
                 ![i].pc = IF checker[i].consecutiveFail + 1 >= DefaultHealthCheckFailCount
                           THEN "seterr" ELSE "idle"]
          /\ svcs' = [svcs EXCEPT ![i] = SetHealth(@, FALSE)]
    /\ UNCHANGED <<services, cancelled, rootDone, main, ui, file, run, procs, made, call, seen, locks>>

\* HealthChecker.check, the probe: the port answers, or it does not (nothing
\* listens, or what listens does not answer in time); streak counts the
\* failed probes since the last one that succeeded
CheckProbe(i) ==
    /\ Settled
    /\ checker[i].pc = "probe"
    /\ \/ /\ IsPortOpen(svcs[i].LocalPort)
          /\ checker' = [checker EXCEPT ![i].pc = "idle", ![i].consecutiveFail = 0,
                                        ![i].streak = 0]
          /\ svcs' = [svcs EXCEPT ![i] = SetHealth(@, TRUE)]
          /\ UNCHANGED env
       \/ /\ IF IsPortOpen(svcs[i].LocalPort)
             THEN env.faults > 0 /\ env' = [env EXCEPT !.faults = @ - 1]
             ELSE UNCHANGED env
          /\ checker' = [checker EXCEPT
                 ![i].consecutiveFail = @ + 1,
                 ![i].streak = IF @ < DefaultHealthCheckFailCount THEN @ + 1 ELSE @,
                 ![i].pc = IF checker[i].consecutiveFail + 1 >= DefaultHealthCheckFailCount
                           THEN "seterr" ELSE "idle"]
          /\ svcs' = [svcs EXCEPT ![i] = SetHealth(@, FALSE)]
    /\ UNCHANGED <<services, cancelled, rootDone, main, ui, file, run, procs, made, call, seen, locks>>

\* HealthChecker.check at the threshold: SetError("Connection lost ...")
CheckSetError(i) ==
    /\ Settled
    /\ checker[i].pc = "seterr"
    /\ svcs' = [svcs EXCEPT ![i] = SetError(@, ConnectionLostMsg)]
    /\ checker' = [checker EXCEPT ![i].pc = "setstatus"]
    /\ UNCHANGED <<services, cancelled, rootDone, main, ui, file, run, procs, made, call, seen, env,
                   locks>>

\* HealthChecker.check at the threshold: SetStatus(StatusReconnecting),
\* consecutiveFail = 0
CheckSetStatus(i) ==
    /\ Settled
    /\ checker[i].pc = "setstatus"
    /\ svcs' = [svcs EXCEPT ![i] = SetStatus(@, StatusReconnecting)]
    /\ checker' = [checker EXCEPT ![i].pc = "idle", ![i].consecutiveFail = 0,
                                  ![i].streak = 0]
    /\ UNCHANGED <<services, cancelled, rootDone, main, ui, file, run, procs, made, call, seen, env,
                   locks>>

----------------------------------------------------------------------------
(* Specifications.                                                         *)

Runner ==
    \/ \E i \in Insts : RunLoop(i)
    \/ \E i \in Insts : RunBackoff(i)
    \/ \E i \in Insts : RunSpawn(i)
    \/ \E i \in Insts : RunWait(i)
    \/ \E i \in Insts : CtxKill(i)
    \/ Collect

\* the fleet: every call, with every kind of argument
Next ==
    \/ \E name \in ArgNames : Start(name)
    \/ StartInsert
    \/ \E name \in ArgNames : AddService(name)
    \/ \E name \in ArgNames : Stop(name)
    \/ StopCancel
    \/ StopReclaim
    \/ \E name \in ArgNames : Restart(name)
    \/ RestartStart
    \/ StopAll
    \/ StopAllReclaim
    \/ GetStates
    \/ Return
    \/ Runner
    \/ Signal

Spec == Init /\ [][Next]_vars

\* one service, restarted from the UI loop, whose child exits by itself
NextRun ==
    \/ AddService(nDb)
    \/ StartInsert
    \/ Restart(nDb)
    \/ StopCancel
    \/ StopReclaim
    \/ RestartStart
    \/ GetStates
    \/ Return
    \/ Runner
    \/ \E i \in Insts : ChildExit(i)

SpecRun == InitRun /\ [][NextRun]_vars

\* one service whose child keeps failing, up to the reconnect ceiling
NextMax ==
    \/ AddService(nDb)
    \/ StartInsert
    \/ Return
    \/ \E i \in Insts : RunLoop(i)
    \/ \E i \in Insts : RunBackoff(i)
    \/ \E i \in Insts : RunSpawn(i)
    \/ \E i \in Insts : RunWait(i)
    \/ \E i \in Insts : MonitorStderr(i)
    \/ \E i \in Insts : ChildExit(i)
    \/ \E i \in Insts : ChildStderr(i)

SpecMax == InitMax /\ [][NextMax]_vars

\* two services that forward the same local port, started and stopped
NextStop ==
    \/ \E name \in {nDb, nTwin} : Start(name)
    \/ StartInsert
    \/ \E name \in {nDb, nTwin} : Stop(name)
    \/ StopCancel
    \/ StopReclaim
    \/ Return
    \/ Runner

SpecStop == Init /\ [][NextStop]_vars

\* handleRun: the services are started, a signal may cancel the root
\* context, the quit key or the end of the UI loop calls StopAll
NextQuit ==
    \/ \E name \in {nDb, nWeb} : Start(name)
    \/ StartInsert
    \/ StopAll
    \/ StopAllReclaim
    \/ GetStates
    \/ Return
    \/ Runner
    \/ Signal

\* the runService goroutine of a Service
RunServiceStep(i) ==
    /\ i \in Insts
    /\ \/ RunLoop(i)
       \/ RunBackoff(i)
       \/ RunSpawn(i)
       \/ RunWait(i)

\* a Manager call that has begun runs to its end
CallInProgress ==
    \/ StartInsert
    \/ StopCancel
    \/ StopReclaim
    \/ RestartStart
    \/ StopAllReclaim
    \/ Return

\* every goroutine that can take a step takes one eventually; which calls
\* the user and the UI loop make, and when, is up to them
SpecQuit ==
    /\ Init
    /\ [][NextQuit]_vars
    /\ WF_vars(CallInProgress)
    /\ WF_vars(Collect)
    /\ \A i \in 1..MaxInst :
           /\ WF_vars(RunServiceStep(i))
           /\ WF_vars(KillStep(i))

\* one service whose child may write to its output, or not
InitOut ==
    /\ InitCommon
    /\ env = [faults |-> 0, lines |-> MaxLines, kinds |-> {"shell"},
              track |-> FALSE, held |-> {}, rands |-> {500}]

NextOut ==
    \/ Start(nDb)
    \/ StartInsert
    \/ StopAll
    \/ StopAllReclaim
    \/ Return
    \/ Runner
    \/ \E i \in Insts : MonitorStdout(i)
    \/ \E i \in Insts : MonitorStderr(i)
    \/ \E i \in Insts : ChildStdout(i)
    \/ \E i \in Insts : ChildStderr(i)

\* the two monitorOutput goroutines of a child
MonitorOutputStep(i) ==
    /\ i \in Insts
    /\ \/ MonitorStdout(i)
       \/ MonitorStderr(i)

\* every goroutine that can take a step takes one eventually; the child
\* writes when it likes
SpecOut ==
    /\ InitOut
    /\ [][NextOut]_vars
    /\ WF_vars(CallInProgress)
    /\ WF_vars(Collect)
    /\ \A i \in 1..MaxInst :
           /\ WF_vars(RunServiceStep(i))
           /\ WF_vars(MonitorOutputStep(i))
           /\ WF_vars(KillStep(i))

\* one Service, and the calls that its runner and its monitors make of
\* addError and addLog; seen keeps what they passed: every error message,
\* every log message that is not blank, and the number of blank ones
InitRing ==
    /\ services = <<>>
    /\ svcs = (1 :> NewService(nDb, Catalog[nDb], ExtractPorts(Catalog[nDb])))
    /\ cancelled = (1 :> FALSE)
    /\ rootDone = FALSE
    /\ run = (1 :> [pc |-> "wait", isFirstRun |-> FALSE])
    /\ procs = (1 :> [NoProc EXCEPT !.child = "shell"])
    /\ made = 1
    /\ call = IdleCall
    /\ seen = [errs |-> <<>>, logs |-> <<>>, blanks |-> 0]
    /\ env = [faults |-> 0, lines |-> 0, kinds |-> {"shell"}, track |-> FALSE,
              held |-> {}, rands |-> {500}]
    /\ checker = <<>>
    /\ main = nil
    /\ ui = nil
    /\ file = nil
    /\ locks = NoLocks

\* the n-th message
LineMsg(n) == <<"l">> \o Itoa(n \div 100) \o Itoa(n % 100)

AddErrorCall ==
    /\ Len(seen.errs) < MaxErrorCalls
    /\ LET msg == LineMsg(Len(seen.errs) + 1)
       IN  /\ svcs' = [svcs EXCEPT ![1] = addError(@, msg)]
           /\ seen' = [seen EXCEPT !.errs = Append(@, msg)]
    /\ UNCHANGED <<services, cancelled, rootDone, main, ui, file, run, procs, made, call, env, checker,
                   locks>>

AddLogCall ==
    /\ Len(seen.logs) < MaxLogCalls
    /\ LET msg == LineMsg(Len(seen.logs) + 1)
           isError == Len(seen.logs) % 2 = 0
       IN  /\ svcs' = [svcs EXCEPT ![1] = addLog(@, msg, isError)]
           /\ seen' = [seen EXCEPT !.logs =
                                       Append(@, [Message |-> msg, IsError |-> isError])]
    /\ UNCHANGED <<services, cancelled, rootDone, main, ui, file, run, procs, made, call, env, checker,
                   locks>>

AddBlankLogCall ==
    /\ seen.blanks < 1
    /\ \E msg \in {<<>>, <<" ">>, <<"\t", " ">>} :
           svcs' = [svcs EXCEPT ![1] = addLog(@, msg, FALSE)]
    /\ seen' = [seen EXCEPT !.blanks = @ + 1]
    /\ UNCHANGED <<services, cancelled, rootDone, main, ui, file, run, procs, made, call, env, checker,
                   locks>>

NextRing ==
    \/ AddErrorCall
    \/ AddLogCall
    \/ AddBlankLogCall

SpecRing == InitRing /\ [][NextRing]_vars

\* one service whose child keeps failing, with the jitter at both ends of
\* its range and in the middle
InitBackoff ==
    /\ InitCommon
    /\ env = [faults |-> maxReconnects, lines |-> 0, kinds |-> {"shell"},
              track |-> FALSE, held |-> {}, rands |-> {0, 500, 999}]

NextBackoff ==
    \/ AddService(nDb)
    \/ StartInsert
    \/ Return
    \/ \E i \in Insts : RunLoop(i)
    \/ \E i \in Insts : RunBackoff(i)
    \/ \E i \in Insts : RunSpawn(i)
    \/ \E i \in Insts : RunWait(i)
    \/ \E i \in Insts : ChildExit(i)

SpecBackoff == InitBackoff /\ [][NextBackoff]_vars

\* the run command (handleRun, src/main.go): the names it was given, where
\* it is, and the code it exited with (nil: it runs)
RunArgs == {<<nDb>>, <<nDb, nWeb>>, <<nDb, nNoPorts>>, <<nDb, nAbsent>>, <<nNoPorts>>}

InitRunCmd ==
    /\ services = <<>>
    /\ svcs = <<>>
    /\ cancelled = <<>>
    /\ rootDone = FALSE
    /\ run = <<>>
    /\ procs = <<>>
    /\ made = 0
    /\ call = IdleCall
    /\ seen = <<>>
    /\ env = [faults |-> 0, lines |-> 0, kinds |-> {"shell"}, track |-> FALSE,
              held |-> {}, rands |-> {500}]
    /\ checker = <<>>
    /\ \E names \in RunArgs :
           main = [pc |-> "validate", serviceNames |-> names, next |-> 1,
                   started |-> 0, code |-> nil]
    /\ ui = nil
    /\ file = nil
    /\ locks = NoLocks

\* handleRun, "Validate all services exist": os.Exit(1) at the first name
\* that storage.Get does not find
HandleRunValidate ==
    /\ main.pc = "validate"
    /\ IF \E k \in DOMAIN main.serviceNames : StorageGet(main.serviceNames[k])[2] # nil
       THEN main' = [main EXCEPT !.pc = "exit", !.code = 1]
       ELSE main' = [main EXCEPT !.pc = "start"]
    /\ UNCHANGED <<services, svcs, cancelled, rootDone, run, procs, made, call, seen, env,
                   checker, ui, file, locks>>

\* handleRun, "Start services": manager.Start(ctx, name) for the next name
HandleRunStart ==
    /\ Settled
    /\ main.pc = "start"
    /\ call.pc = "idle"
    /\ main.next <= Len(main.serviceNames)
    /\ StartBody(main.serviceNames[main.next], "Start")
    /\ main' = [main EXCEPT !.next = @ + 1]
    /\ UNCHANGED <<services, svcs, cancelled, rootDone, run, made, seen, env, checker,
                   ui, file, locks>>

\* handleRun, after a Start: os.Exit(1) when it returned an error, else on
\* to the next name
HandleRunStarted ==
    /\ Settled
    /\ main.pc = "start"
    /\ call.pc = "ret"
    /\ IF call.err # nil
       THEN main' = [main EXCEPT !.pc = "exit", !.code = 1]
       ELSE main' = [main EXCEPT !.started = @ + 1]
    /\ call' = IdleCall
    /\ UNCHANGED <<services, svcs, cancelled, rootDone, run, procs, made, seen, env,
                   checker, ui, file, locks>>

\* handleRun, "Run TUI": tea.NewProgram(ui).Run()
HandleRunTui ==
    /\ main.pc = "start"
    /\ call.pc = "idle"
    /\ main.next > Len(main.serviceNames)
    /\ main' = [main EXCEPT !.pc = "tui"]
    /\ UNCHANGED <<services, svcs, cancelled, rootDone, run, procs, made, call, seen, env,
                   checker, ui, file, locks>>

\* UI.Update, keys q / ctrl+c / esc: u.manager.StopAll(), then tea.Quit
UiQuitKey ==
    /\ main.pc = "tui"
    /\ StopAll

\* tea.Quit: p.Run() returns without error
UiQuit ==
    /\ Settled
    /\ main.pc = "tui"
    /\ call.pc = "ret"
    /\ call' = IdleCall
    /\ main' = [main EXCEPT !.pc = "cleanup"]
    /\ UNCHANGED <<services, svcs, cancelled, rootDone, run, procs, made, seen, env,
                   checker, ui, file, locks>>

\* p.Run() returns an error (the terminal cannot be opened, the program is
\* killed, a panic in the model): fmt.Printf and os.Exit(1)
HandleRunTuiError ==
    /\ main.pc = "tui"
    /\ call.pc = "idle"
    /\ main' = [main EXCEPT !.pc = "exit", !.code = 1]
    /\ UNCHANGED <<services, svcs, cancelled, rootDone, run, procs, made, call, seen, env,
                   checker, ui, file, locks>>

\* handleRun, "Cleanup": manager.StopAll()
HandleRunCleanup ==
    /\ main.pc = "cleanup"
    /\ StopAll

\* handleRun returns and the process exits with code 0
HandleRunReturn ==
    /\ Settled
    /\ main.pc = "cleanup"
    /\ call.pc = "ret"
    /\ call' = IdleCall
    /\ main' = [main EXCEPT !.pc = "exit", !.code = 0]
    /\ UNCHANGED <<services, svcs, cancelled, rootDone, run, procs, made, seen, env,
                   checker, ui, file, locks>>

\* the goroutines run for as long as the process has not exited
NextRunCmd ==
    \/ HandleRunValidate
    \/ HandleRunStart
    \/ StartInsert
    \/ HandleRunStarted
    \/ HandleRunTui
    \/ UiQuitKey
    \/ StopAllReclaim
    \/ UiQuit
    \/ HandleRunTuiError
    \/ HandleRunCleanup
    \/ HandleRunReturn
    \/ main.pc # "exit" /\ Runner

SpecRunCmd == InitRunCmd /\ [][NextRunCmd]_vars

----------------------------------------------------------------------------
(* Package main: the UI (src/ui.go).  Update handles one message at a     *)
(* time, on the thread that calls the Manager.                             *)

\* NewUI.  since is time.Since(u.lastActivity) at the latest tick, in
\* milliseconds; msg is the kind of the message Update handled last;
\* ranging is the part of selectedServices that the range of the enter key
\* has yet to visit.  Two fields record history and are read by no action:
\* toggled counts the space presses on each row since the modal opened,
\* asked is the set of names AddService was called with since then
NewUI ==
    [services |-> <<>>, selectedIndex |-> 0, ready |-> FALSE,
     addingService |-> FALSE, availableServices |-> <<>>,
     selectedServiceIndex |-> 0, selectedServices |-> <<>>,
     lastRenderHash |-> <<>>, tickInterval |-> 500, since |-> 0, msg |-> "none",
     ranging |-> {}, toggled |-> <<>>, asked |-> {}]

\* A tick rate whose steps begin at the bounds 5 s and 10 s themselves.
TickIntervalFromBound(timeSinceActivity) ==
    IF timeSinceActivity > 30000 THEN 2000
    ELSE IF timeSinceActivity >= 10000 THEN 1000
    ELSE IF timeSinceActivity >= 5000 THEN 750
    ELSE 500

\* UI.Update, tickMsg, "Dynamic tick rate based on activity"
TickInterval(timeSinceActivity) ==
    IF timeSinceActivity > 30000 THEN 2000
    ELSE IF timeSinceActivity > 10000 THEN 1000
    ELSE IF timeSinceActivity > 5000 THEN 750
    ELSE 500

\* UI.Update, tickMsg, "Check if there are any changes that require UI
\* update" (src/ui.go)
HasChanges(newServices, old) ==
    \/ Len(newServices) # Len(old)
    \/ \E i \in DOMAIN newServices :
           \/ i > Len(old)
           \/ newServices[i].Status # old[i].Status
           \/ newServices[i].Error # old[i].Error
           \/ newServices[i].ReconnectCount # old[i].ReconnectCount

\* renderCombinedLogsContent: the content is made of the log entries of the
\* services with their names; it is kept as the list of them
renderCombinedLogsContent(list) ==
    [k \in DOMAIN list |-> <<list[k].Name, list[k].LogHistory>>]

\* how long after the interval a tick message can be handled, milliseconds
TickLate == {0, 250}

\* the UI after a tick that finds newServices, late milliseconds after its
\* interval has passed, with hasChanges the outcome of the comparison
AfterTick(u, newServices, hasChanges, late) ==
    LET elapsed == u.since + u.tickInterval + late
        update == u.ready /\ hasChanges
        since == IF update THEN 0
                 ELSE IF elapsed > MaxSince THEN MaxSince ELSE elapsed
    IN  [u EXCEPT
            !.services = newServices,
            !.lastRenderHash = IF update THEN renderCombinedLogsContent(newServices)
                               ELSE @,
            !.selectedIndex = IF @ >= Len(newServices) /\ Len(newServices) > 0
                              THEN Len(newServices) - 1 ELSE @,
            !.since = since,
            !.tickInterval = TickInterval(since),
            !.msg = "tick"]

\* UI.Update, tickMsg
UiTick ==
    /\ Settled
    /\ call.pc = "idle"
    /\ \E late \in TickLate :
           ui' = AfterTick(ui, GetStatesResult, HasChanges(GetStatesResult, ui.services),
                           late)
    /\ UNCHANGED <<services, svcs, cancelled, rootDone, run, procs, made, call, seen, env,
                   checker, main, file, locks>>

\* UI.Update, tea.WindowSizeMsg
UiWindowSize ==
    /\ call.pc = "idle"
    /\ ui' = [ui EXCEPT !.ready = TRUE, !.lastRenderHash = <<>>, !.msg = "size"]
    /\ UNCHANGED <<services, svcs, cancelled, rootDone, run, procs, made, call, seen, env,
                   checker, main, file, locks>>

\* UI.Update, key s: Stop of the selected row of the list fetched last
UiKeyS ==
    /\ ~ui.addingService
    /\ ui.selectedIndex < Len(ui.services)
    /\ Stop(ui.services[ui.selectedIndex + 1].Name)

\* the UI over one service that fails once: ticks, the window size, the
\* keys that start and stop the service
InitTick ==
    /\ services = <<>>
    /\ svcs = <<>>
    /\ cancelled = <<>>
    /\ rootDone = FALSE
    /\ run = <<>>
    /\ procs = <<>>
    /\ made = 0
    /\ call = IdleCall
    /\ seen = <<>>
    /\ env = [faults |-> 1, lines |-> 0, kinds |-> {"shell"}, track |-> FALSE,
              held |-> {}, rands |-> {500}]
    /\ checker = <<>>
    /\ main = nil
    /\ ui = NewUI
    /\ file = nil
    /\ locks = NoLocks

NextTick ==
    \/ UiTick
    \/ UiWindowSize
    \/ made = 0 /\ AddService(nDb)
    \/ StartInsert
    \/ UiKeyS
    \/ StopCancel
    \/ StopReclaim
    \/ Return
    \/ Runner
    \/ \E i \in Insts : ChildExit(i)

SpecTick == InitTick /\ [][NextTick]_vars

\* serviceLogsChanged (src/unnamed/part_006)
serviceLogsChanged(newSvc, oldSvc) ==
    IF Len(newSvc.LogHistory) # Len(oldSvc.LogHistory)
    THEN TRUE
    ELSE IF Len(newSvc.LogHistory) = 0
    THEN FALSE
    ELSE newSvc.LogHistory[Len(newSvc.LogHistory)]
             # oldSvc.LogHistory[Len(oldSvc.LogHistory)]

\* UI.Update, tickMsg, the change detection of src/unnamed/part_006
HasChangesOrLogs(newServices, old) ==
    \/ HasChanges(newServices, old)
    \/ \E i \in DOMAIN newServices : serviceLogsChanged(newServices[i], old[i])

\* UI.Update, tickMsg, of src/unnamed/part_006
UiTickLogs ==
    /\ Settled
    /\ call.pc = "idle"
    /\ \E late \in TickLate :
           ui' = AfterTick(ui, GetStatesResult,
                           HasChangesOrLogs(GetStatesResult, ui.services), late)
    /\ UNCHANGED <<services, svcs, cancelled, rootDone, run, procs, made, call, seen, env,
                   checker, main, file, locks>>

\* Manager.monitorOutput on a line of stdout that is not empty and does not
\* say "Forwarding from": svc.addLog(line, false)
MonitorLogLine ==
    /\ \E i \in Insts :
           /\ Alive(i)
           /\ Len(svcs[i].LogHistory) < MaxTickLogs
           /\ svcs' = [svcs EXCEPT
                          ![i] = addLog(@, LineMsg(Len(svcs[i].LogHistory) + 1), FALSE)]
    /\ UNCHANGED <<services, cancelled, rootDone, run, procs, made, call, seen, env,
                   checker, main, ui, file, locks>>

\* the UI over one running service whose child prints lines
InitTickLog ==
    /\ services = (nDb :> 1)
    /\ svcs = (1 :> NewService(nDb, Catalog[nDb], ExtractPorts(Catalog[nDb])))
    /\ cancelled = (1 :> FALSE)
    /\ rootDone = FALSE
    /\ run = (1 :> [pc |-> "wait", isFirstRun |-> FALSE, reconnectCount |-> 0,
                    backoff |-> 0, spawns |-> 1])
    /\ procs = (1 :> [NoProc EXCEPT !.child = "shell"])
    /\ made = 1
    /\ call = IdleCall
    /\ seen = <<>>
    /\ env = [faults |-> 0, lines |-> 0, kinds |-> {"shell"}, track |-> FALSE,
              held |-> {}, rands |-> {500}]
    /\ checker = <<>>
    /\ main = nil
    /\ ui = NewUI
    /\ file = nil
    /\ locks = NoLocks

NextTickLog ==
    \/ UiTick
    \/ UiWindowSize
    \/ MonitorLogLine

SpecTickLog == InitTickLog /\ [][NextTickLog]_vars

\* the same with the tick of src/unnamed/part_006
NextTickLogs ==
    \/ UiTickLogs
    \/ UiWindowSize
    \/ MonitorLogLine

SpecTickLogs == InitTickLog /\ [][NextTickLogs]_vars

\* Storage.GetAllServiceNames: [names, err]
GetAllServiceNames(f) ==
    LET data == LoadData(f)
    IN  IF data.err # nil
        THEN [names |-> <<>>, err |-> data.err]
        ELSE [names |-> SortNames(DOMAIN data.Services), err |-> nil]

\* "(All services are already running)"
allRunning ==
    <<"(", "A", "l", "l", " ", "s", "e", "r", "v", "i", "c", "e", "s", " ", "a", "r",
      "e", " ", "a", "l", "r", "e", "a", "d", "y", " ", "r", "u", "n", "n", "i", "n",
      "g", ")">>

\* the elements of q that are not in S, in the order of q
Without(q, S) == SelectSeq(q, LAMBDA n : n \notin S)

\* the modal closed: the four assignments that end esc and enter
ModalClosed(u, key) ==
    [u EXCEPT !.addingService = FALSE, !.availableServices = <<>>,
              !.selectedServiceIndex = 0, !.selectedServices = <<>>,
              !.ranging = {}, !.msg = key]

\* UI.enterAddServiceMode
enterAddServiceMode(u) ==
    LET all == GetAllServiceNames(file)
        running == {GetStatesResult[k].Name : k \in DOMAIN GetStatesResult}
        available == Without(all.names, running)
    IN  IF all.err # nil \/ Len(all.names) = 0
        THEN [u EXCEPT !.msg = "a"]
        ELSE [u EXCEPT !.addingService = TRUE,
                       !.availableServices = IF Len(available) = 0
                                             THEN <<allRunning>> ELSE available,
                       !.selectedServiceIndex = 0,
                       !.selectedServices = <<>>,
                       !.toggled = <<>>, !.asked = {},
                       !.msg = "a"]

\* UI.Update, key a
UiKeyA ==
    /\ Settled
    /\ call.pc = "idle"
    /\ ~ui.addingService
    /\ ui' = enterAddServiceMode(ui)
    /\ UNCHANGED <<services, svcs, cancelled, rootDone, run, procs, made, call, seen, env,
                   checker, main, file, locks>>

\* the modal takes a key when Update is not in the middle of another one
ModalKey == ui.addingService /\ ui.ranging = {} /\ ui.msg # "enter" /\ call.pc = "idle"

\* UI.Update in add-service mode, keys up and k
UiModalUp ==
    /\ ModalKey
    /\ ui.selectedServiceIndex > 0
    /\ ui' = [ui EXCEPT !.selectedServiceIndex = @ - 1, !.msg = "up"]
    /\ UNCHANGED <<services, svcs, cancelled, rootDone, run, procs, made, call, seen, env,
                   checker, main, file, locks>>

\* UI.Update in add-service mode, keys down and j
UiModalDown ==
    /\ ModalKey
    /\ ui.selectedServiceIndex < Len(ui.availableServices) - 1
    /\ ui' = [ui EXCEPT !.selectedServiceIndex = @ + 1, !.msg = "down"]
    /\ UNCHANGED <<services, svcs, cancelled, rootDone, run, procs, made, call, seen, env,
                   checker, main, file, locks>>

\* A toggle that takes the placeholder row like any other row.
ToggleAnyRow(u) ==
    LET serviceName == u.availableServices[u.selectedServiceIndex + 1]
        was == serviceName \in DOMAIN u.selectedServices /\ u.selectedServices[serviceName]
    IN  [u EXCEPT !.selectedServices = Put(@, serviceName, ~was), !.msg = "space"]

\* UI.Update in add-service mode, key space: "Toggle selection for current
\* item"
Toggle(u) ==
    IF u.availableServices[u.selectedServiceIndex + 1] = allRunning
    THEN [u EXCEPT !.msg = "space"]
    ELSE ToggleAnyRow(u)

UiModalSpace ==
    /\ ModalKey
    /\ ui.selectedServiceIndex < Len(ui.availableServices)
    /\ \A n \in DOMAIN ui.toggled : ui.toggled[n] < MaxToggles
    /\ LET row == ui.availableServices[ui.selectedServiceIndex + 1]
       IN  ui' = [Toggle(ui) EXCEPT
                     !.toggled = Put(@, row, IF row \in DOMAIN @ THEN @[row] + 1 ELSE 1)]
    /\ UNCHANGED <<services, svcs, cancelled, rootDone, run, procs, made, call, seen, env,
                   checker, main, file, locks>>

\* UI.Update in add-service mode, key esc
UiModalEsc ==
    /\ ModalKey
    /\ ui' = ModalClosed(ui, "esc")
    /\ UNCHANGED <<services, svcs, cancelled, rootDone, run, procs, made, call, seen, env,
                   checker, main, file, locks>>

\* UI.Update in add-service mode, key enter: the range over
\* u.selectedServices begins
UiModalEnter ==
    /\ ModalKey
    /\ ui' = [ui EXCEPT !.ranging = DOMAIN ui.selectedServices, !.msg = "enter"]
    /\ UNCHANGED <<services, svcs, cancelled, rootDone, run, procs, made, call, seen, env,
                   checker, main, file, locks>>

\* the range visits an entry that is selected: u.manager.AddService
UiModalAddService ==
    /\ ui.msg = "enter"
    /\ \E serviceName \in ui.ranging :
           /\ ui.selectedServices[serviceName]
           /\ AddServiceCall(serviceName)
           /\ ui' = [ui EXCEPT !.ranging = @ \ {serviceName},
                               !.asked = @ \cup {serviceName}]

\* the range visits an entry that is not selected
UiModalSkip ==
    /\ ui.msg = "enter"
    /\ call.pc = "idle"
    /\ \E serviceName \in ui.ranging :
           /\ ~ui.selectedServices[serviceName]
           /\ ui' = [ui EXCEPT !.ranging = @ \ {serviceName}]
    /\ UNCHANGED <<services, svcs, cancelled, rootDone, run, procs, made, call, seen, env,
                   checker, main, file, locks>>

\* the range is over: the modal closes
UiModalEntered ==
    /\ ui.msg = "enter"
    /\ call.pc = "idle"
    /\ ui.ranging = {}
    /\ ui' = ModalClosed(ui, "entered")
    /\ UNCHANGED <<services, svcs, cancelled, rootDone, run, procs, made, call, seen, env,
                   checker, main, file, locks>>

\* the catalog files the modal is opened over: the services of these names
\* out of Catalog, saved
ModalCatalogs == {{}, {nDb}, {nDb, nWeb}}

CatalogFile(S) == SaveData([Services |-> [n \in S |-> Catalog[n]], Groups |-> <<>>])

\* a file that is not JSON of either format
BrokenFile == JObject(kGroups :> JObject(nGrp :> JArray(<<JString(nDb)>>)))

\* the UI over a catalog file, nothing running yet
InitModal ==
    /\ services = <<>>
    /\ svcs = <<>>
    /\ cancelled = <<>>
    /\ rootDone = FALSE
    /\ run = <<>>
    /\ procs = <<>>
    /\ made = 0
    /\ call = IdleCall
    /\ seen = <<>>
    /\ env = [faults |-> 0, lines |-> 0, kinds |-> {"shell"}, track |-> FALSE,
              held |-> {}, rands |-> {500}]
    /\ checker = <<>>
    /\ main = nil
    /\ ui = NewUI
    /\ file \in {CatalogFile(S) : S \in ModalCatalogs} \cup {BrokenFile}
    /\ locks = NoLocks

NextModal ==
    \/ UiKeyA
    \/ UiModalUp
    \/ UiModalDown
    \/ UiModalSpace
    \/ UiModalEsc
    \/ UiModalEnter
    \/ UiModalAddService
    \/ UiModalSkip
    \/ UiModalEntered
    \/ StartInsert
    \/ Return

SpecModal == InitModal /\ [][NextModal]_vars

----------------------------------------------------------------------------
(* Package main: the commands that edit the catalog (src/main.go).  Each   *)
(* is one run of the program; main keeps what the last run was given and   *)
(* how it ended.                                                            *)

\* strings.TrimSpace
RECURSIVE TrimLeft(_)
TrimLeft(s) == IF s # <<>> /\ Head(s) \in Space THEN TrimLeft(Tail(s)) ELSE s

RECURSIVE TrimRight(_)
TrimRight(s) ==
    IF s # <<>> /\ s[Len(s)] \in Space THEN TrimRight(SubSeq(s, 1, Len(s) - 1)) ELSE s

TrimSpace(s) == TrimRight(TrimLeft(s))

\* strings.Split(s, ",")
RECURSIVE Split(_)
Split(s) ==
    IF \E k \in DOMAIN s : s[k] = ","
    THEN LET k == CHOOSE i \in DOMAIN s : s[i] = "," /\ \A j \in 1..(i - 1) : s[j] # ","
         IN  <<SubSeq(s, 1, k - 1)>> \o Split(SubSeq(s, k + 1, Len(s)))
    ELSE <<s>>

\* a command of 1001 characters
cLong == [i \in 1..1001 |-> "k"]

\* os.Args[2] and os.Args[3:] of add
AddNames == {nDb, nGrp, nBadChar, <<>>}
AddCommands == {Catalog[nDb], Catalog[nDanger], cLong}

\* os.Args[2] of delete
DeleteNames == {nDb, nGrp, nAbsent}

\* os.Args[3] and os.Args[4] of group add, os.Args[3] of group delete
GroupNames == {nGrp, nDb}
GroupArgs == {nDb, nBadChar, nDb \o <<",", " ">> \o nGrp}

\* a catalog file written by a version that knew no groups
LegacyFile == JObject(nWeb :> JString(Catalog[nWeb]))

\* the program has not run yet
NoCommand ==
    [cmd |-> "none", name |-> <<>>, command |-> <<>>, code |-> 0, saved |-> FALSE, data |-> [Services |-> <<>>, Groups |-> <<>>]]

\* the end of a command that made the storage call with the outcome r:
\* os.Exit(1) on an error, return otherwise
Ran(cmd, name, command, r) ==
    /\ file' = r.file
    /\ main' = [cmd |-> cmd, name |-> name, command |-> command,
                code |-> IF r.err # nil THEN 1 ELSE 0,
                saved |-> r.saved, data |-> r.data]
    /\ UNCHANGED <<services, svcs, cancelled, rootDone, run, procs, made, call, seen, env,
                   checker, ui, locks>>

\* handleAdd
handleAdd(name, command) == Ran("add", name, command, StorageAdd(file, name, command))

\* handleDelete
handleDelete(name) == Ran("delete", name, <<>>, StorageDelete(file, name))

\* handleGroupAdd
handleGroupAdd(groupName, servicesStr) ==
    LET parts == Split(servicesStr)
        serviceNames == [i \in DOMAIN parts |-> TrimSpace(parts[i])]
    IN  Ran("group add", groupName, servicesStr, AddGroup(file, groupName, serviceNames))

\* handleGroupDelete
handleGroupDelete(groupName) ==
    Ran("group delete", groupName, <<>>, DeleteGroup(file, groupName))

HandleAdd == \E name \in AddNames : \E command \in AddCommands : handleAdd(name, command)

HandleDelete == \E name \in DeleteNames : handleDelete(name)

HandleGroupAdd ==
    \E groupName \in GroupNames : \E servicesStr \in GroupArgs :
        handleGroupAdd(groupName, servicesStr)

HandleGroupDelete == \E groupName \in GroupNames : handleGroupDelete(groupName)

\* the catalog commands run one after another over a catalog file that does
\* not exist yet or is of the legacy format
InitCatalog ==
    /\ services = <<>>
    /\ svcs = <<>>
    /\ cancelled = <<>>
    /\ rootDone = FALSE
    /\ run = <<>>
    /\ procs = <<>>
    /\ made = 0
    /\ call = IdleCall
    /\ seen = <<>>
    /\ env = [faults |-> 0, lines |-> 0, kinds |-> {"shell"}, track |-> FALSE,
              held |-> {}, rands |-> {500}]
    /\ checker = <<>>
    /\ main = NoCommand
    /\ ui = nil
    /\ file \in {NoFile, LegacyFile}
    /\ locks = NoLocks

NextCatalog ==
    \/ HandleAdd
    \/ HandleDelete
    \/ HandleGroupAdd
    \/ HandleGroupDelete

SpecCatalog == InitCatalog /\ [][NextCatalog]_vars

----------------------------------------------------------------------------
(* Package ui: the Model (src/internal/ui/update.go, src/unnamed/part_017). *)
(* A command returned by Update runs in a goroutine of its own; the         *)
(* message it returns is handled by a later Update.                         *)

\* ui.New.  cmds: the commands of the latest tick that have not run yet;
\* msgs: the messages on their way to Update.  The ClearAt of an ErrorEntry
\* is "zero" (time.Time{}), "set" (a time still ahead) or "due" (a time that
\* has passed).  old: the errors, as <<name, time>>, that are 30 s old.
\* cleared records history and is read by no action: per name, the
\* Timestamp of the entry that clearError removed last
NewModel ==
    [services |-> <<>>, errors |-> <<>>, cmds |-> {}, msgs |-> {}, old |-> {},
     cleared |-> <<>>]

ErrorEntry(state) ==
    [Service |-> state.Name, Message |-> state.LastError, Timestamp |-> state.ErrorTime,
     ClearAt |-> "zero"]

\* Model.updateServiceStates, "Check if this service has a new error"
NoteError(errors, state) ==
    IF state.LastError # nil /\ state.ErrorTime # ZeroTime
    THEN IF \E i \in DOMAIN errors : errors[i].Service = state.Name
         THEN LET i == CHOOSE k \in DOMAIN errors :
                           /\ errors[k].Service = state.Name
                           /\ \A j \in 1..(k - 1) : errors[j].Service # state.Name
              IN  IF errors[i].Timestamp # state.ErrorTime
                  THEN [errors EXCEPT ![i] = ErrorEntry(state)]
                  ELSE errors
         ELSE Append(errors, ErrorEntry(state))
    ELSE errors

\* Model.updateServiceStates, "If service is now online and has an error,
\* schedule it for clearing"
Schedule(errors, state) ==
    IF state.Status = StatusOnline
    THEN [i \in DOMAIN errors |->
             IF errors[i].Service = state.Name /\ errors[i].ClearAt = "zero"
             THEN [errors[i] EXCEPT !.ClearAt = "set"]
             ELSE errors[i]]
    ELSE errors

\* the loop of Model.updateServiceStates over the states from the k-th on
RECURSIVE UpdateErrors(_, _, _)
UpdateErrors(errors, states, k) ==
    IF k > Len(states)
    THEN errors
    ELSE UpdateErrors(Schedule(NoteError(errors, states[k]), states[k]), states, k + 1)

\* sort.Slice(states, by Name)
SortStates(states) ==
    LET names == SortNames({states[k].Name : k \in DOMAIN states})
    IN  [k \in DOMAIN names |->
            states[CHOOSE j \in DOMAIN states : states[j].Name = names[k]]]

\* Model.updateServiceStates
updateServiceStates(m, states) ==
    LET sorted == SortStates(states)
        errors == UpdateErrors(m.errors, sorted, 1)
    IN  [m EXCEPT
            !.services = sorted,
            !.errors = SelectSeq(errors,
                           LAMBDA e : <<e.Service, e.Timestamp>> \notin m.old
                                          \/ e.ClearAt # "zero")]

\* Model.clearError
clearError(m, serviceName) ==
    [m EXCEPT !.errors = SelectSeq(@, LAMBDA e : e.Service # serviceName),
              !.cleared = IF \E i \in DOMAIN m.errors : m.errors[i].Service = serviceName
                          THEN Put(@, serviceName,
                                   m.errors[CHOOSE i \in DOMAIN m.errors :
                                                m.errors[i].Service = serviceName].Timestamp)
                          ELSE @]

\* Model.Update, tickMsg: the batch of updateServicesCmd and
\* checkErrorClearCmd (and the next tick)
ModelTick ==
    /\ ui.cmds = {} /\ ui.msgs = {}
    /\ ui' = [ui EXCEPT !.cmds = {"updateServices", "checkErrorClear"}]
    /\ UNCHANGED <<services, svcs, cancelled, rootDone, run, procs, made, call, seen, env,
                   checker, main, file, locks>>

\* Model.updateServicesCmd runs: Manager.GetStates, in the order of its
\* range over the map
ModelUpdateServicesCmd ==
    /\ "updateServices" \in ui.cmds
    /\ \E o \in Orders(DOMAIN services) :
           ui' = [ui EXCEPT
                     !.cmds = @ \ {"updateServices"},
                     !.msgs = @ \cup {[type |-> "servicesUpdateMsg",
                                       states |-> [k \in DOMAIN o |->
                                           StateGetSnapshot(svcs[services[o[k]]])]]}]
    /\ UNCHANGED <<services, svcs, cancelled, rootDone, run, procs, made, call, seen, env,
                   checker, main, file, locks>>

\* Model.checkErrorClearCmd runs: the last entry whose ClearAt has passed
ModelCheckErrorClearCmd ==
    /\ "checkErrorClear" \in ui.cmds
    /\ LET due == {i \in DOMAIN ui.errors : ui.errors[i].ClearAt = "due"}
       IN  IF due = {}
           THEN ui' = [ui EXCEPT !.cmds = @ \ {"checkErrorClear"}]
           ELSE LET i == CHOOSE k \in due : \A j \in due : j <= k
                IN  ui' = [ui EXCEPT
                              !.cmds = @ \ {"checkErrorClear"},
                              !.msgs = @ \cup {[type |-> "errorClearMsg",
                                                serviceName |-> ui.errors[i].Service]}]
    /\ UNCHANGED <<services, svcs, cancelled, rootDone, run, procs, made, call, seen, env,
                   checker, main, file, locks>>

\* Model.Update, servicesUpdateMsg
ModelServicesUpdate ==
    /\ \E msg \in ui.msgs :
           /\ msg.type = "servicesUpdateMsg"
           /\ ui' = [updateServiceStates(ui, msg.states) EXCEPT !.msgs = @ \ {msg}]
    /\ UNCHANGED <<services, svcs, cancelled, rootDone, run, procs, made, call, seen, env,
                   checker, main, file, locks>>

\* Model.Update, errorClearMsg
ModelErrorClear ==
    /\ \E msg \in ui.msgs :
           /\ msg.type = "errorClearMsg"
           /\ ui' = [clearError(ui, msg.serviceName) EXCEPT !.msgs = @ \ {msg}]
    /\ UNCHANGED <<services, svcs, cancelled, rootDone, run, procs, made, call, seen, env,
                   checker, main, file, locks>>

\* config.ErrorAutoClearDelay passes for an entry scheduled for clearing
ClearDelayPasses ==
    /\ \E i \in DOMAIN ui.errors :
           /\ ui.errors[i].ClearAt = "set"
           /\ ui' = [ui EXCEPT !.errors[i].ClearAt = "due"]
    /\ UNCHANGED <<services, svcs, cancelled, rootDone, run, procs, made, call, seen, env,
                   checker, main, file, locks>>

\* 30 seconds pass since the error of a State
ErrorAges ==
    /\ \E i \in Insts :
           /\ svcs[i].ErrorTime # ZeroTime
           /\ <<svcs[i].Name, svcs[i].ErrorTime>> \notin ui.old
           /\ ui' = [ui EXCEPT !.old = @ \cup {<<svcs[i].Name, svcs[i].ErrorTime>>}]
    /\ UNCHANGED <<services, svcs, cancelled, rootDone, run, procs, made, call, seen, env,
                   checker, main, file, locks>>

\* the Model over one service whose child fails or exits at most
\* MaxErrorTime times
InitErrors ==
    /\ services = <<>>
    /\ svcs = <<>>
    /\ cancelled = <<>>
    /\ rootDone = FALSE
    /\ run = <<>>
    /\ procs = <<>>
    /\ made = 0
    /\ call = IdleCall
    /\ seen = <<>>
    /\ env = [faults |-> MaxErrorTime, lines |-> 0, kinds |-> {"shell"}, track |-> FALSE,
              held |-> {}, rands |-> {500}]
    /\ checker = <<>>
    /\ main = nil
    /\ ui = NewModel
    /\ file = nil
    /\ locks = NoLocks

NextErrors ==
    \/ made = 0 /\ ServiceStart(nDb)
    \/ ServiceProbe
    \/ ServiceInsert
    \/ Return
    \/ \E i \in Insts : RunTop(i)
    \/ \E i \in Insts : RunOnceStart(i)
    \/ \E i \in Insts : RunOnceGrace(i)
    \/ \E i \in Insts : RunOnceWait(i)
    \/ \E i \in Insts : RunOnceReconnecting(i)
    \/ \E i \in Insts : RunPause(i)
    \/ \E i \in Insts : ChildExit(i)
    \/ ModelTick
    \/ ModelUpdateServicesCmd
    \/ ModelCheckErrorClearCmd
    \/ ModelServicesUpdate
    \/ ModelErrorClear
    \/ ClearDelayPasses
    \/ ErrorAges

SpecErrors == InitErrors /\ [][NextErrors]_vars

\* package service: one service, its runner and its health checker
InitSvc ==
    /\ InitCommon
    /\ \E held \in SUBSET {LocalPortOf(nDb)} :
           env = [faults |-> MaxFaults, lines |-> MaxLines,
                  kinds |-> {"shell", "tree", "bg"}, track |-> FALSE, held |-> held,
                  rands |-> {500}]

\* the application starts each name once, and stops all when it quits
NextSvc ==
    \/ made = 0 /\ ServiceStart(nDb)
    \/ ServiceProbe
    \/ ServiceKill
    \/ ServiceFinalProbe
    \/ ServiceInsert
    \/ ServiceStopAll
    \/ ServiceStopAllReclaim
    \/ Return
    \/ Collect
    \/ \E i \in Insts : RunTop(i)
    \/ \E i \in Insts : RunOnceStart(i)
    \/ \E i \in Insts : RunOnceGrace(i)
    \/ \E i \in Insts : RunOnceWait(i)
    \/ \E i \in Insts : RunOnceReconnecting(i)
    \/ \E i \in Insts : RunPause(i)
    \/ \E i \in Insts : monitorOutput(i)
    \/ \E i \in Insts : CheckerStop(i)
    \/ \E i \in Insts : CheckTick(i)
    \/ \E i \in Insts : CheckProbe(i)
    \/ \E i \in Insts : CheckSetError(i)
    \/ \E i \in Insts : CheckSetStatus(i)
    \/ \E i \in Insts : ChildExit(i)
    \/ \E i \in Insts : CtxKill(i)
    \/ \E i \in Insts : ChildFirstLine(i)

SpecSvc == InitSvc /\ [][NextSvc]_vars

\* what the program itself does is done eventually; the child, the caller
\* and the foreign processes are under no obligation
SvcProgram ==
    \/ ServiceProbe
    \/ ServiceKill
    \/ ServiceFinalProbe
    \/ ServiceInsert
    \/ ServiceStopAllReclaim
    \/ Return
    \/ Collect
    \/ \E i \in Insts : RunTop(i)
    \/ \E i \in Insts : RunOnceStart(i)
    \/ \E i \in Insts : RunOnceGrace(i)
    \/ \E i \in Insts : RunOnceWait(i)
    \/ \E i \in Insts : RunOnceReconnecting(i)
    \/ \E i \in Insts : RunPause(i)
    \/ \E i \in Insts : monitorOutput(i)
    \/ \E i \in Insts : CheckerStop(i)
    \/ \E i \in Insts : CheckTick(i)
    \/ \E i \in Insts : CheckProbe(i)
    \/ \E i \in Insts : CheckSetError(i)
    \/ \E i \in Insts : CheckSetStatus(i)
    \/ \E i \in Insts : CtxKill(i)

SpecSvcFair == SpecSvc /\ WF_vars(SvcProgram)

\* the goroutines and the call in progress, one by one
RunnerStep(i) ==
    /\ i \in Insts
    /\ \/ RunTop(i)
       \/ RunOnceStart(i)
       \/ RunOnceGrace(i)
       \/ RunOnceWait(i)
       \/ RunOnceReconnecting(i)
       \/ RunPause(i)

MonitorStep(i) == i \in Insts /\ monitorOutput(i)

CheckerStep(i) ==
    /\ i \in DOMAIN checker
    /\ \/ CheckerStop(i)
       \/ CheckTick(i)
       \/ CheckProbe(i)
       \/ CheckSetError(i)
       \/ CheckSetStatus(i)

CallStep ==
    \/ ServiceProbe
    \/ ServiceKill
    \/ ServiceFinalProbe
    \/ ServiceInsert
    \/ ServiceStopAllReclaim
    \/ Return

\* every goroutine that can take a step takes one eventually, and so do the
\* call in progress and the kill that exec.CommandContext sends
SpecSvcLive ==
    /\ SpecSvc
    /\ WF_vars(CallStep)
    /\ WF_vars(Collect)
    /\ \A i \in 1..MaxInst :
           /\ WF_vars(RunnerStep(i))
           /\ WF_vars(MonitorStep(i))
           /\ WF_vars(CheckerStep(i))
           /\ WF_vars(KillStep(i))

\* package service with Manager.Stop called on the service
NextSvcStop ==
    \/ NextSvc
    \/ ServiceStop(nDb)
    \/ ServiceStopCancel
    \/ ServiceStopReclaim
    \/ ServiceStopDelete

SpecSvcStop == InitSvc /\ [][NextSvcStop]_vars

\* package service with two services started in either order and listed
InitSvcList ==
    /\ InitCommon
    /\ env = [faults |-> 0, lines |-> 0, kinds |-> {"shell"}, track |-> FALSE,
              held |-> {}, rands |-> {500}]

NextSvcList ==
    \/ \E name \in {nDb, nWeb} : name \notin DOMAIN services /\ ServiceStart(name)
    \/ ServiceProbe
    \/ ServiceInsert
    \/ ServiceGetStatesCall
    \/ Return
    \/ \E i \in Insts : RunTop(i)
    \/ \E i \in Insts : RunOnceStart(i)
    \/ \E i \in Insts : RunOnceGrace(i)

SpecSvcList == InitSvcList /\ [][NextSvcList]_vars

----------------------------------------------------------------------------
(* Properties of the fleet (Spec).                                         *)

\* C1: a Start for a name that is in the registry when the call begins
\* returns an error, leaves the registry as it was and builds no second
\* Service (so no second runner) for the name.
C1_StartOfRegisteredNameFails ==
    (call.op = "Start" /\ call.pc \in {"insert", "ret"}
                       /\ call.name \in DOMAIN call.before)
        => /\ call.pc = "ret"
           /\ call.err # nil
           /\ services = call.before
           /\ made = call.madeBefore

\* C2: when StopAll has returned, GetStates returns the empty sequence.
C2_StopAllEmptiesRegistry ==
    (call.op = "StopAll" /\ call.pc = "ret") => GetStatesResult = <<>>

\* StopAll has returned and the registry it was called on held two services.
C2_Witness ==
    /\ call.op = "StopAll"
    /\ call.pc = "ret"
    /\ DOMAIN call.before = {nDb, nWeb}

----------------------------------------------------------------------------
(* Properties of one service (SpecRun, SpecMax).                           *)

\* C4 as stated: in two successive GetStates results that contain a name,
\* the later ReconnectCount is not below the earlier one.
C4_CountNeverDropsForName ==
    \A n \in DOMAIN seen : seen[n].prev <= seen[n].ReconnectCount

\* C4: in two successive GetStates results that show the same Service
\* under a name, the later ReconnectCount is not below the earlier one.
C4_CountNeverDropsForService ==
    \A n \in DOMAIN seen :
        seen[n].prevId = seen[n].id => seen[n].prev <= seen[n].ReconnectCount

\* Two successive results have shown the same Service, the later one with a
\* higher count.
C4_Witness ==
    \E n \in DOMAIN seen :
        /\ seen[n].prevId = seen[n].id
        /\ seen[n].prev >= 0
        /\ seen[n].prev < seen[n].ReconnectCount

\* C5: a registered Service whose runner has given up at the reconnect
\* ceiling has status error and the error "Max reconnect attempts (10)
\* exceeded", and has no child, for as long as it stays registered.
C5_CeilingIsFinal ==
    \A i \in Insts :
        (/\ \E n \in DOMAIN services : services[n] = i
         /\ run[i].pc = "done"
         /\ svcs[i].ReconnectCount >= maxReconnects)
            => /\ svcs[i].Status = StatusError
               /\ svcs[i].Error = MaxReconnectMsg
               /\ ~Alive(i)

----------------------------------------------------------------------------
(* Properties of package service (SpecSvc, SpecSvcFair).                   *)

\* C3: once a Runner has returned, neither its child nor any other process
\* of the child's process group is alive.
C3_RunnerLeavesNoProcess ==
    \A i \in Insts : run[i].pc = "done" => ~Alive(i) /\ ~procs[i].leaked

\* the text of the error of C6
StillInUseText(port) ==
    <<"port ">> \o port \o <<" is still in use after ", "3", " cleanup attempts">>

IsPrefix(a, b) == Len(a) <= Len(b) /\ SubSeq(b, 1, Len(a)) = a

Kills(log) == Cardinality({k \in 1..Len(log) : log[k] = "kill"})

C8_ErrorReconnectingConnecting ==
    \A i \in Insts :
        (run[i].exitOnline /\ ~Done(i))
            => /\ run[i].pc = "reconn" => svcs[i].Status = SvcStatusError
               /\ run[i].pc = "pause" => svcs[i].Status = StatusReconnecting

\* C9: a State that the health loop has set to RECONNECTING after a streak
\* of failed probes is respawned (its Runner comes to cmd.Start again)
\* unless its context is done.
C9_FailureLeadsToRespawn ==
    \A i \in 1..MaxInst :
        [](( /\ i \in Insts
             /\ svcs[i].Status = StatusReconnecting
             /\ svcs[i].LastError = ConnectionLostMsg)
           => <>(i \notin Insts \/ Done(i) \/ run[i].pc = "start"))

C11_CancelledRunnerReturns ==
    \A i \in 1..MaxInst :
        []((i \in Insts /\ Done(i)) => <>(i \notin Insts \/ run[i].pc = "done"))

----------------------------------------------------------------------------
(* Properties of Stop and Restart (SpecStop, Spec).                        *)

\* C12: a step of Stop(name) leaves every other registered name registered
\* to the same Service, and leaves that Service, its context, its runner
\* and its child process as they were.
C12_StopTouchesOnlyItsService ==
    [][(call' # call /\ call'.op = "Stop")
          => \A m \in DOMAIN services \ {call'.name} :
                 /\ m \in DOMAIN services'
                 /\ services'[m] = services[m]
                 /\ svcs'[services[m]] = svcs[services[m]]
                 /\ cancelled'[services[m]] = cancelled[services[m]]
                 /\ run'[services[m]] = run[services[m]]
                 /\ procs'[services[m]] = procs[services[m]]]_vars

----------------------------------------------------------------------------
(* Properties of the shutdown (SpecQuit).                                  *)

\* C13: once the root context is cancelled, eventually every runner has
\* returned and GetStates returns the empty sequence.
C13_RootCancelEmptiesFleet ==
    [](rootDone => <>(/\ \A i \in Insts : run[i].pc = "done"
                      /\ GetStatesResult = <<>>))

\* the runners' half of C13: once the root context is cancelled, eventually
\* every runner has returned
RootCancelStopsRunners ==
    [](rootDone => <>(\A i \in Insts : run[i].pc = "done"))

----------------------------------------------------------------------------
(* Properties of the status of a running child (SpecOut, SpecSvcLive).     *)

\* C14: a Service whose child has been spawned and stays alive, and for
\* which no error is recorded, eventually has the status healthy, whatever
\* the child writes.
C14_AliveChildBecomesHealthy ==
    \A i \in 1..MaxInst :
        []((i \in Insts /\ Alive(i))
           => <>(\/ i \notin Insts
                 \/ ~Alive(i)
                 \/ svcs[i].Status \in {StatusHealthy, StatusError}))

\* the same for package service: a State that is CONNECTING when its
\* child has been spawned is ONLINE at some time after, unless the child is
\* gone or the health loop has written a failure of the child before it
GraceMakesOnline ==
    \A i \in 1..MaxInst :
        []((i \in Insts /\ run[i].pc = "grace"
                        /\ svcs[i].Status = SvcStatusConnecting)
           => <>(\/ i \notin Insts
                 \/ ~Alive(i)
                 \/ svcs[i].Status \in {StatusOnline, SvcStatusError,
                                          StatusReconnecting}))

\* C15: a State whose status is ONLINE has an OnlineTime that is not the
\* zero time, and so has every snapshot that GetStates returns.
C15_OnlineHasOnlineTime ==
    /\ \A i \in DOMAIN checker :
           svcs[i].Status = StatusOnline => svcs[i].OnlineTime # ZeroTime
    /\ \A snap \in ServiceGetStates :
           snap.Status = StatusOnline => snap.OnlineTime # ZeroTime

\* GetStates returns an ONLINE snapshot of a State whose child has written
\* nothing: the grace window made it ONLINE.
C15_Witness ==
    \E n \in DOMAIN services :
        /\ services[n] \in DOMAIN checker
        /\ StateGetSnapshot(svcs[services[n]]) \in ServiceGetStates
        /\ svcs[services[n]].Status = StatusOnline
        /\ ~procs[services[n]].said
        /\ run[services[n]].pc = "wait"

----------------------------------------------------------------------------
(* Properties of the rings of a Service (SpecRing).                        *)

\* the last n entries of h
LastN(h, n) == IF Len(h) > n THEN SubSeq(h, Len(h) - n + 1, Len(h)) ELSE h

\* C16: ErrorHistory holds at most 10 entries and LogHistory at most 100,
\* and each holds the entries inserted last, in the order of insertion: the
\* last 10 messages passed to addError, the last 100 messages that are not
\* blank passed to addLog.
C16_RingsKeepTheLatest ==
    /\ Len(svcs[1].ErrorHistory) <= errorHistoryCap
    /\ Len(svcs[1].LogHistory) <= logHistoryCap
    /\ svcs[1].ErrorHistory = LastN(seen.errs, errorHistoryCap)
    /\ svcs[1].LogHistory = LastN(seen.logs, logHistoryCap)
    /\ GetSnapshot(svcs[1]).ErrorHistory = LastN(seen.errs, errorHistoryCap)
    /\ GetSnapshot(svcs[1]).LogHistory = LastN(seen.logs, logHistoryCap)

\* Both rings have dropped entries: more errors and more logs have been
\* inserted than the rings hold, and a blank message has been passed too.
C16_Witness ==
    /\ Len(seen.errs) = errorHistoryCap + 2
    /\ Len(seen.logs) = logHistoryCap + 2
    /\ seen.blanks = 1
    /\ svcs[1].LogHistory[1] = seen.logs[3]
    /\ svcs[1].ErrorHistory[1] = seen.errs[3]

----------------------------------------------------------------------------
(* Properties of the reconnect loop (SpecMax, SpecBackoff).                *)

\* C17: when the runner is not between counting a reconnect and spawning
\* for it (it waits for its child, is back at the top of its loop, or has
\* returned), ReconnectCount is the number of cmd.Start calls made for the
\* Service, less one.
C17_CountIsSpawnsLessOne ==
    \A i \in Insts :
        (run[i].pc \in {"wait", "loop", "done"} /\ run[i].spawns >= 1)
            => svcs[i].ReconnectCount = run[i].spawns - 1

\* the wait d is within 10% of min(2 s * 2^(n-1), 30 s)
WithinTenPercent(d, n) ==
    LET b == baseBackoff * Pow2(n - 1)
        nominal == IF b > maxBackoff THEN maxBackoff ELSE b
    IN  10 * d >= 9 * nominal /\ 10 * d <= 11 * nominal

\* C18: for every n from 1 to 10, the runner that has counted reconnect n
\* has computed a wait for it, within 10% of min(2 s * 2^(n-1), 30 s).
C18_EveryReconnectWaits ==
    \A i \in Insts :
        svcs[i].ReconnectCount \in 1..10
            => /\ run[i].reconnectCount = svcs[i].ReconnectCount
               /\ WithinTenPercent(run[i].backoff, svcs[i].ReconnectCount)

\* the waits that are made: a runner in its backoff select waits a duration
\* within 10% of min(2 s * 2^(n-1), 30 s), n being the reconnect it counted
WaitsAreInRange ==
    \A i \in Insts :
        run[i].pc = "backoff"
            => /\ run[i].reconnectCount = svcs[i].ReconnectCount
               /\ run[i].reconnectCount \in 1..(maxReconnects - 1)
               /\ WithinTenPercent(run[i].backoff, run[i].reconnectCount)

----------------------------------------------------------------------------
(* Properties of Stop and Restart (SpecSvcStop, Spec, SpecStop).           *)

\* C19: a name whose scope has been cancelled by its Manager is not in the
\* registry any more (IsRunning and GetStates do not show it), and when
\* Stop has returned the name is not running.
C19_CancelledNameIsInvisible ==
    /\ \A n \in DOMAIN Catalog :
           IsRunning(n) => ~cancelled[services[n]]
    /\ \A n \in DOMAIN services :
           \A st \in ServiceGetStates : st.Name = n => ~cancelled[services[n]]
    /\ (call.op = "service.Stop" /\ call.pc = "ret") => ~IsRunning(call.name)

\* Manager.Stop of package main: the Service that a Manager has cancelled
\* is not in the map, and the name is not in the map when Stop returns
StopDetachesFirst ==
    /\ \A n \in DOMAIN services : ~cancelled[services[n]]
    /\ (call.op = "Stop" /\ call.pc \in {"cancel", "reclaim", "ret"})
           => call.name \notin DOMAIN services

\* what a step of Manager.Restart leaves: before the Start half inserts,
\* the name is out of the map and every Service of that name is cancelled;
\* the insert maps the name to a Service that was just built (connecting,
\* nothing counted, its runner not yet run) and whose own cancel function
\* has not been called; a Restart that returns an error leaves the name out
\* of the map.  With live, the context of the new Service is not done.
RestartOutcome(live) ==
    /\ (call.op = "Restart" /\ call.pc = "insert" /\ call'.pc = "ret")
           => /\ call.name \notin DOMAIN services
              /\ \A i \in Insts : svcs[i].Name = call.name => cancelled[i]
              /\ call.name \in DOMAIN services'
              /\ LET id == services'[call.name]
                 IN  /\ id > made
                     /\ svcs'[id] = NewService(call.name, Catalog[call.name],
                                               ExtractPorts(Catalog[call.name]))
                     /\ svcs'[id].Status = StatusConnecting
                     /\ run'[id].spawns = 0
                     /\ ~cancelled'[id]
                     /\ live => ~rootDone'
              /\ call'.err = nil
    /\ (call.op = "Restart" /\ call'.op = "Restart" /\ call'.pc = "ret"
            /\ call'.err # nil)
           => call.name \notin DOMAIN services'

\* C20: Restart is Stop and then Start: when its Start half inserts, the
\* old Service is cancelled and out of the map; a Restart that succeeds
\* leaves the name mapped to a new Service, connecting, whose context is
\* live; a Restart whose Start half fails leaves the name out of the map.
C20_RestartReplaces == [][RestartOutcome(TRUE)]_vars

\* the same, whatever the state of the context that was passed to Restart
RestartReplacesUnderItsContext == [][RestartOutcome(FALSE)]_vars

----------------------------------------------------------------------------
(* Properties of the list of states (SpecSvcList, Spec).                   *)

\* the list has one snapshot for every name of the map and no other, and
\* the names ascend
SortedOnePerEntry(result) ==
    /\ Len(result) = Cardinality(DOMAIN services)
    /\ \A n \in DOMAIN services : \E k \in DOMAIN result : result[k].Name = n
    /\ \A k \in 1..(Len(result) - 1) : StrLess(result[k].Name, result[k + 1].Name)

\* C21: what a call of GetStates returns is one snapshot for each entry of
\* the map, the snapshot of that entry, in ascending order of the names.
C21_GetStatesSortedByName ==
    [][/\ (call.pc = "idle" /\ call'.op = "service.GetStates" /\ call'.pc = "ret")
           => /\ SortedOnePerEntry(call'.result)
              /\ \A k \in DOMAIN call'.result :
                     call'.result[k] =
                         StateGetSnapshot(svcs[services[call'.result[k].Name]])
       /\ (call.pc = "idle" /\ call'.op = "GetStates" /\ call'.pc = "ret")
           => /\ SortedOnePerEntry(call'.result)
              /\ \A k \in DOMAIN call'.result :
                     call'.result[k] =
                         GetSnapshot(svcs[services[call'.result[k].Name]])]_vars

----------------------------------------------------------------------------
(* Properties of the status of a stopped service (SpecSvcStop).            *)

\* the values of Status that the State of package service takes while its
\* service runs
RunningStatuses ==
    {SvcStatusConnecting, StatusOnline, StatusReconnecting, SvcStatusError}

\* C22: when the context of a service is done and its runner has returned,
\* the Status is no longer one of the statuses of a running service (it is
\* the status of a stopped one).
C22_CancelledIsStopped ==
    \A i \in Insts :
        (Done(i) /\ run[i].pc = "done") => svcs[i].Status \notin RunningStatuses

\* the Status of a State is always one of the four constants of the package
StatusIsOneOfFour == \A i \in Insts : svcs[i].Status \in RunningStatuses

----------------------------------------------------------------------------
(* Properties of the run command (SpecRunCmd).                             *)

\* C23: when the run command has exited after it started a service, StopAll
\* has been executed: the map is empty and the context of every Service
\* that is left has been cancelled, so that no Service is left with a
\* child that nothing will kill.
C23_ExitAfterStopAll ==
    (main.pc = "exit" /\ main.started >= 1)
        => /\ services = <<>>
           /\ \A i \in Insts : cancelled[i]

\* the exits of the quit keys: handleRun returns after StopAll
QuitKeyExitAfterStopAll ==
    (main.pc = "exit" /\ main.code = 0)
        => /\ services = <<>>
           /\ \A i \in Insts : cancelled[i]

----------------------------------------------------------------------------
(* Properties of the UI's tick (SpecTick).                                 *)

\* the step is the handling of a tick message that changes the UI
TickStep == ui' # ui /\ ui'.msg = "tick"

\* C24: the interval a tick chooses is a function of the time since the
\* last activity alone: 500 ms up to 5 s, 750 ms above 5 s and up to 10 s,
\* 1000 ms above 10 s and up to 30 s, 2000 ms above 30 s; a tick that finds
\* no change does not lower the interval; a tick of a UI that has its
\* window size and finds a change restarts the time and chooses 500 ms.
C24_IntervalFollowsIdleTime ==
    [][TickStep
         => LET changed == HasChanges(GetStatesResult, ui.services)
                t == ui'.since
            IN  /\ t <= 5000 => ui'.tickInterval = 500
                /\ (t > 5000 /\ t <= 10000) => ui'.tickInterval = 750
                /\ (t > 10000 /\ t <= 30000) => ui'.tickInterval = 1000
                /\ t > 30000 => ui'.tickInterval = 2000
                /\ ~changed => /\ ui'.tickInterval >= ui.tickInterval
                               /\ ui'.since >= ui.since
                /\ (changed /\ ui.ready) => (t = 0 /\ ui'.tickInterval = 500)]_vars

\* the UI has been idle for more than 30 s and ticks every 2000 ms
C24_Witness ==
    /\ ui.msg = "tick"
    /\ ui.ready
    /\ Len(ui.services) = 1
    /\ ui.since > 30000
    /\ ui.tickInterval = 2000

\* C24 as it is stated: 500 ms below 5 s, 750 ms from 5 s, 1000 ms from
\* 10 s, 2000 ms above 30 s, and every tick that finds a change chooses
\* 500 ms.
C24_IntervalByBands ==
    [][TickStep
         => LET changed == HasChanges(GetStatesResult, ui.services)
                t == ui'.since
            IN  /\ t < 5000 => ui'.tickInterval = 500
                /\ (t >= 5000 /\ t < 10000) => ui'.tickInterval = 750
                /\ (t >= 10000 /\ t <= 30000) => ui'.tickInterval = 1000
                /\ t > 30000 => ui'.tickInterval = 2000
                /\ ~changed => ui'.tickInterval >= ui.tickInterval
                /\ changed => ui'.tickInterval = 500]_vars

\* the bands alone, as stated
IntervalByBandsOnly ==
    [][TickStep
         => LET t == ui'.since
            IN  /\ t < 5000 => ui'.tickInterval = 500
                /\ (t >= 5000 /\ t < 10000) => ui'.tickInterval = 750
                /\ (t >= 10000 /\ t <= 30000) => ui'.tickInterval = 1000
                /\ t > 30000 => ui'.tickInterval = 2000]_vars

\* the return to 500 ms alone, as stated
ChangeResetsInterval ==
    [][TickStep
         => (HasChanges(GetStatesResult, ui.services) => ui'.tickInterval = 500)]_vars

\* the latest log entry of a snapshot (nil: none)
LatestLog(snapshot) ==
    IF Len(snapshot.LogHistory) = 0
    THEN nil
    ELSE snapshot.LogHistory[Len(snapshot.LogHistory)]

\* the new list differs from the old one in length or, at some index, in
\* the status, the error, the reconnect count or the latest log entry
Differs(newServices, old) ==
    \/ Len(newServices) # Len(old)
    \/ \E i \in DOMAIN newServices :
           \/ newServices[i].Status # old[i].Status
           \/ newServices[i].Error # old[i].Error
           \/ newServices[i].ReconnectCount # old[i].ReconnectCount
           \/ LatestLog(newServices[i]) # LatestLog(old[i])

\* C25: a tick of a UI that has its window size treats the fleet as changed
\* (it restarts the time since the last activity and recomputes the content
\* of the log view) exactly when the new list differs from the previous
\* one in length, status, error, reconnect count or latest log entry; when
\* it does not differ the cached content is left as it is.
C25_ChangeDetection ==
    [][(TickStep /\ ui.ready)
         => LET differs == Differs(GetStatesResult, ui.services)
            IN  /\ differs <=> ui'.since = 0
                /\ differs
                     => ui'.lastRenderHash = renderCombinedLogsContent(GetStatesResult)
                /\ ~differs => ui'.lastRenderHash = ui.lastRenderHash]_vars

----------------------------------------------------------------------------
(* The add-service modal.                                                   *)

\* the names of the rows of a list
Rows(list) == {list[k] : k \in DOMAIN list}

\* the names whose flag is true when the presses are counted: pressed an odd
\* number of times, the placeholder row apart
OddlyToggled(u) ==
    {n \in DOMAIN u.toggled : n # allRunning /\ u.toggled[n] % 2 = 1}

\* C26: in the add-service modal the list offered is exactly the catalog
\* names that are not in the registry at the moment the modal opens (the
\* placeholder row alone when there is none), without repetition; when
\* enter has been handled AddService has been called for exactly the names
\* toggled an odd number of times, and no AddService call leaves the UI at
\* any other moment; esc calls nothing and leaves the fleet as it is; the
\* placeholder row is never a key of the selection and never started.
C26_ModalContract ==
    [][/\ (~ui.addingService /\ ui'.addingService)
           => LET notRunning == DOMAIN LoadData(file).Services \ DOMAIN services
              IN  /\ Rows(ui'.availableServices)
                         = IF notRunning = {} THEN {allRunning} ELSE notRunning
                  /\ Len(ui'.availableServices)
                         = Cardinality(Rows(ui'.availableServices))
       /\ (ui.msg = "enter" /\ ui'.msg = "entered")
           => /\ ui.asked = OddlyToggled(ui)
              /\ ui.asked \subseteq Rows(ui.availableServices)
       /\ (call.pc = "idle" /\ call'.pc # "idle")
           => /\ call'.op = "AddService"
              /\ ui.msg = "enter"
              /\ call'.name \in OddlyToggled(ui)
              /\ call'.name \notin ui.asked
              /\ call'.name \in ui'.asked
       /\ (ui.addingService /\ ui'.msg = "esc")
           => /\ ui.asked = {}
              /\ UNCHANGED <<services, svcs, cancelled, run, procs, made, call>>
       /\ allRunning \notin DOMAIN ui'.selectedServices
       /\ allRunning \notin ui'.asked
       /\ \A n \in DOMAIN services' : n # allRunning]_vars

\* enter has started db, pressed once, and not web, pressed twice
C26_Witness ==
    /\ ui.msg = "entered"
    /\ ui.asked = {nDb}
    /\ nDb \in DOMAIN services
    /\ nWeb \in DOMAIN ui.toggled /\ ui.toggled[nWeb] = 2
    /\ nWeb \notin DOMAIN services

\* space was pressed on the placeholder row
PlaceholderPressed ==
    /\ ui.addingService
    /\ allRunning \in DOMAIN ui.toggled

\* esc closed a modal in which a name was selected
EscWithSelection ==
    /\ ui.msg = "esc"
    /\ \E n \in DOMAIN ui.toggled : ui.toggled[n] = 1

----------------------------------------------------------------------------
(* The catalog file and the commands that edit it.                          *)

\* C27: the file that a save has written loads without error and yields
\* the services and the groups that were saved, and saving what was loaded
\* writes the same file again; the legacy flat file loads with its pairs of
\* name and command and no group.
C27_SaveLoadRoundTrip ==
    LET l == LoadData(file)
    IN  /\ main.saved
            => /\ l.err = nil
               /\ l.Services = main.data.Services
               /\ l.Groups = main.data.Groups
               /\ SaveData(l) = file
        /\ file = LegacyFile
            => /\ l.err = nil
               /\ l.Services = (nWeb :> Catalog[nWeb])
               /\ l.Groups = <<>>

\* the same, for every save but that of groups without any service
RoundTripWithServices ==
    LET l == LoadData(file)
    IN  (main.saved /\ ~(main.data.Services = <<>> /\ main.data.Groups # <<>>))
            => /\ l.err = nil
               /\ l.Services = main.data.Services
               /\ l.Groups = main.data.Groups
               /\ SaveData(l) = file

\* the first save over the legacy file writes the nested form
LegacyBecomesNested ==
    [][(file = LegacyFile /\ main'.saved /\ main'.data.Services # <<>>)
           => /\ kServices \in DOMAIN file'.v
              /\ file'.v[kServices] = JObject([n \in DOMAIN main'.data.Services |->
                                                  JString(main'.data.Services[n])])]_vars

\* C28: an add whose name validateServiceName refuses, or whose command
\* validateCommand refuses (over 1000 characters, or a dangerous pattern),
\* ends with exit code 1 and leaves the catalog file as it was.
C28_InvalidAddRejected ==
    [][(/\ main'.cmd = "add"
        /\ \/ validateServiceName(main'.name) # nil
           \/ validateCommand(main'.command) # nil)
           => /\ main'.code = 1
              /\ file' = file]_vars

\* C29: no name is a service and a group of the catalog at the same time.
C29_NoNameIsServiceAndGroup ==
    /\ \A n \in AddNames \cup GroupNames : ~CheckNameConflict(file, n)
    /\ LET l == LoadData(file)
       IN  DOMAIN l.Services \cap DOMAIN l.Groups = {}

\* group add itself never makes a name both
GroupAddKeepsNamesApart ==
    [][main'.cmd = "group add"
           => LET l == LoadData(file')
                  was == LoadData(file)
              IN  (DOMAIN l.Services \cap DOMAIN l.Groups)
                      \subseteq (DOMAIN was.Services \cap DOMAIN was.Groups)]_vars

----------------------------------------------------------------------------
(* The error list of the Model.                                             *)

\* the entries of the error list for a service
EntriesOf(n) == {i \in DOMAIN ui.errors : ui.errors[i].Service = n}

\* C30: an entry of the error list that clearError has removed does not
\* come back: whenever the list holds an entry of a service one of whose
\* entries was cleared, its error time is later than that of the entry
\* cleared.
C30_ClearedErrorStaysCleared ==
    \A i \in DOMAIN ui.errors :
        ui.errors[i].Service \in DOMAIN ui.cleared
            => ui.errors[i].Timestamp > ui.cleared[ui.errors[i].Service]

\* an entry is scheduled for clearing only by an update that finds the
\* service ONLINE
ScheduledOnlyWhenOnline ==
    [][\A n \in DOMAIN services :
           (\E i \in DOMAIN ui'.errors :
                /\ ui'.errors[i].Service = n /\ ui'.errors[i].ClearAt = "set"
                /\ \A k \in DOMAIN ui.errors :
                       ui.errors[k].Service = n => ui.errors[k].ClearAt = "zero")
               => \E msg \in ui.msgs :
                      /\ msg.type = "servicesUpdateMsg"
                      /\ \E k \in DOMAIN msg.states :
                             /\ msg.states[k].Name = n
                             /\ msg.states[k].Status = StatusOnline]_vars

\* the list holds one entry at most for a service
OneEntryPerService == \A n \in DOMAIN services : Cardinality(EntriesOf(n)) <= 1

\* the entry of a new error is shown after an older one was cleared
NewErrorShownAfterClear ==
    \E i \in DOMAIN ui.errors :
        /\ ui.errors[i].Service \in DOMAIN ui.cleared
        /\ ui.errors[i].Timestamp > ui.cleared[ui.errors[i].Service]

----------------------------------------------------------------------------
(* The exit of the child.                                                   *)

\* C31: when cmd.Wait() returns under a context that is not done, whatever
\* the exit status, the Service has a non-empty error and the status
\* RECONNECTING as runOnce returns to the loop that waits for the next
\* spawn.
C31_ChildExitReconnects ==
    [][\A i \in Insts :
           (run[i].pc = "wait" /\ run'[i].pc = "loop" /\ ~Done(i))
               => /\ svcs'[i].Error # nil
                  /\ svcs'[i].Status = StatusReconnecting]_vars

\* package service: the Runner begins its pause after an exit under a live
\* context with an error recorded and the status RECONNECTING
RunnerExitReconnects ==
    [][\A i \in Insts :
           (run[i].pc = "reconn" /\ run'[i].pc = "pause")
               => /\ svcs'[i].LastError # nil
                  /\ svcs'[i].Status = StatusReconnecting]_vars

\* package main: a child that failed under a live context leaves an error
ChildFailureRecorded ==
    [][\A i \in Insts :
           (run[i].pc = "wait" /\ run'[i].pc = "loop" /\ ~Done(i)
            /\ procs[i].child = "dead1")
               => /\ svcs'[i].Error = ProcessDiedMsg
                  /\ svcs'[i].Status = StatusError]_vars

----------------------------------------------------------------------------
(* The health checker and the status.                                       *)

\* the State i has left ONLINE while its child lives and its port answers
LeftOnline(i) ==
    /\ i \in Insts
    /\ ~Done(i)
    /\ svcs[i].Status \in {SvcStatusError, StatusReconnecting}
    /\ Alive(i)
    /\ IsPortOpen(svcs[i].LocalPort)

\* C32: a State that has left ONLINE (to ERROR or RECONNECTING) while its
\* child is alive and its local port accepts connections is ONLINE again
\* later, unless the child has gone or the service was stopped meanwhile.
C32_ProbeReassertsOnline ==
    \A i \in 1..MaxInst :
        LeftOnline(i) ~> (\/ i \notin Insts
                          \/ Done(i)
                          \/ ~Alive(i)
                          \/ svcs[i].Status = StatusOnline)

\* the checker probes a State only while it is ONLINE, and writes no status
\* but RECONNECTING
CheckerNeverSetsOnline ==
    [][\A i \in Insts :
           (/\ i \in DOMAIN checker /\ i \in DOMAIN checker' /\ i \in DOMAIN svcs'
            /\ checker'[i] # checker[i]
            /\ svcs'[i].Status # svcs[i].Status)
               => svcs'[i].Status \in {SvcStatusError, StatusReconnecting}]_vars

----------------------------------------------------------------------------
(* The runners and the registry.                                            *)

\* the runner of the Service i is alive under a context that is not done
LiveRunner(i) == run[i].pc # "done" /\ ~Done(i)

\* C34: every runner that is alive under a context not yet cancelled
\* belongs to the Service that the registry maps its name to, or to one that
\* a Stop or StopAll in progress has taken out and is about to cancel; so
\* there is one such runner per name at most.
C34_OneLiveRunnerPerName ==
    \A i \in Insts :
        LiveRunner(i)
            => \/ svcs[i].Name \in DOMAIN services /\ services[svcs[i].Name] = i
               \/ i \in call.insts

Online == {StatusOnline, StatusHealthy}

\* the runner of the Service i waits before it spawns the next child
WaitsToRespawn(i) == run[i].pc \in {"pause", "backoff"}

\* a step that sets the status ONLINE (healthy) of a Service whose context
\* is not done finds the child alive
PromotionOverLiveChild ==
    [][\A i \in Insts :
           (/\ i \in DOMAIN svcs'
            /\ ~Done(i)
            /\ svcs[i].Status \notin Online
            /\ svcs'[i].Status \in Online)
               => Alive(i)]_vars

\* the status is not ONLINE (healthy) while the runner waits to respawn
NotOnlineWhileWaiting ==
    \A i \in Insts :
        WaitsToRespawn(i) /\ ~Done(i) => svcs[i].Status \notin Online

\* C35: a Service is not reported ONLINE (healthy, in package main) without
\* a live child: while its context is not done, no step sets that status
\* after the child has exited, and the status is another one whenever the
\* runner waits to spawn the next child.
C35_OnlineHasLiveChild ==
    [][\A i \in Insts :
           (i \in DOMAIN svcs' /\ ~Done(i) /\ ~cancelled'[i] /\ ~rootDone')
               => /\ (svcs[i].Status \notin Online /\ svcs'[i].Status \in Online)
                         => Alive(i)
                  /\ (run'[i].pc \in {"pause", "backoff"})
                         => svcs'[i].Status \notin Online]_vars

\* C36: the failure transition of the health checker applies to the state
\* it observed: its SetError finds the status ONLINE, as its GetStatus did,
\* and its SetStatus(RECONNECTING) finds the ERROR its own SetError left.
C36_CheckerWritesWhatItObserved ==
    [][\A i \in DOMAIN checker :
           i \in DOMAIN checker'
               => /\ (checker[i].pc = "seterr" /\ checker'[i].pc = "setstatus")
                         => svcs[i].Status = StatusOnline
                  /\ (checker[i].pc = "setstatus" /\ checker'[i].pc = "idle")
                         => /\ svcs[i].Status = SvcStatusError
                            /\ svcs[i].LastError = ConnectionLostMsg]_vars

\* the checker's SetStatus(RECONNECTING) never lands on the CONNECTING or
\* ONLINE of a child spawned after the probe
FreshChildKeepsItsStatus ==
    [][\A i \in DOMAIN checker :
           (/\ i \in DOMAIN checker'
            /\ checker[i].pc \in {"seterr", "setstatus"}
            /\ checker'[i].pc # checker[i].pc)
               => ~(run[i].pc \in {"start", "grace"} /\ svcs[i].Status = SvcStatusConnecting)]_vars

\* no two entries of the registry have the same local port
PortsAreDistinct ==
    \A n1, n2 \in DOMAIN services :
        n1 # n2 => svcs[services[n1]].LocalPort # svcs[services[n2]].LocalPort

\* the port reclamation of a Start leaves the children of the Services
\* registered under other names alone
StartSparesOtherServices ==
    [][(call.pc = "idle" /\ call'.op \in {"Start", "service.Start"})
           => \A n \in DOMAIN services :
                  n # call'.name => procs'[services[n]] = procs[services[n]]]_vars

\* C37: the registry never holds two entries with the same local port, and
\* the port reclamation that precedes a Start terminates no child of a
\* Service registered under another name.
C37_OnePortOneService ==
    [][/\ PortsAreDistinct'
       /\ (call.pc = "idle" /\ call'.op \in {"Start", "service.Start"})
              => \A n \in DOMAIN services :
                     n # call'.name => procs'[services[n]] = procs[services[n]]]_vars

\* the Services of package main
MainServices == {i \in Insts : "ErrorHistory" \in DOMAIN svcs[i]}

\* C39: whenever a Service of package main has the status error or a
\* non-empty Error, Error is the message of the newest entry of ErrorHistory.
C39_ErrorIsNewestHistoryEntry ==
    \A i \in MainServices :
        (svcs[i].Status = StatusError \/ svcs[i].Error # nil)
            => /\ svcs[i].ErrorHistory # <<>>
               /\ svcs[i].ErrorHistory[Len(svcs[i].ErrorHistory)] = svcs[i].Error

\* every step that sets a non-empty Error appends it to ErrorHistory
ErrorSetIsAppended ==
    [][\A i \in MainServices :
           (i \in DOMAIN svcs' /\ svcs'[i].Error # svcs[i].Error /\ svcs'[i].Error # nil)
               => /\ svcs'[i].ErrorHistory # <<>>
                  /\ svcs'[i].ErrorHistory[Len(svcs'[i].ErrorHistory)] = svcs'[i].Error]_vars

----------------------------------------------------------------------------
(* Package main: the selection of the UI (src/ui.go).                       *)

\* A key up that moves the selection whatever the index is.
KeyUpUnguarded(u) ==
    [u EXCEPT !.selectedIndex = @ - 1, !.msg = "key"]

\* UI.Update, keys up / k
KeyUp(u) ==
    [u EXCEPT !.selectedIndex = IF @ > 0 THEN @ - 1 ELSE @, !.msg = "key"]

\* UI.Update, keys down / j
KeyDown(u) ==
    [u EXCEPT !.selectedIndex = IF @ < Len(u.services) - 1 THEN @ + 1 ELSE @,
              !.msg = "key"]

UiKeyUp ==
    /\ call.pc = "idle"
    /\ ~ui.addingService
    /\ ui' = KeyUp(ui)
    /\ UNCHANGED <<services, svcs, cancelled, rootDone, run, procs, made, call, seen, env,
                   checker, main, file, locks>>

UiKeyDown ==
    /\ call.pc = "idle"
    /\ ~ui.addingService
    /\ ui' = KeyDown(ui)
    /\ UNCHANGED <<services, svcs, cancelled, rootDone, run, procs, made, call, seen, env,
                   checker, main, file, locks>>

\* UI.Update, key r: Restart of the selected row of the list fetched last
UiKeyR ==
    /\ ~ui.addingService
    /\ ui.selectedIndex < Len(ui.services) /\ Len(ui.services) > 0
    /\ Restart(ui.services[ui.selectedIndex + 1].Name)

\* the UI over two services that are added, restarted and stopped, whose
\* children exit only when they are killed: ticks and the keys up, down, r
\* and s
InitKeys ==
    /\ services = <<>>
    /\ svcs = <<>>
    /\ cancelled = <<>>
    /\ rootDone = FALSE
    /\ run = <<>>
    /\ procs = <<>>
    /\ made = 0
    /\ call = IdleCall
    /\ seen = <<>>
    /\ env = [faults |-> 0, lines |-> 0, kinds |-> {"shell"}, track |-> FALSE,
              held |-> {}, rands |-> {500}]
    /\ checker = <<>>
    /\ main = nil
    /\ ui = NewUI
    /\ file = nil
    /\ locks = NoLocks

NextKeys ==
    \/ UiTick
    \/ UiKeyUp
    \/ UiKeyDown
    \/ UiKeyR
    \/ UiKeyS
    \/ \E name \in {nDb, nWeb} : AddService(name)
    \/ StartInsert
    \/ StopCancel
    \/ StopReclaim
    \/ RestartStart
    \/ Return
    \/ \E i \in Insts : RunLoop(i)
    \/ \E i \in Insts : RunSpawn(i)
    \/ \E i \in Insts : RunWait(i)
    \/ \E i \in Insts : CtxKill(i)
    \/ Collect

SpecKeys == InitKeys /\ [][NextKeys]_vars

\* the rows of the list the UI fetched last, counted from 0
ListRows == 0..(Len(ui.services) - 1)

\* C40: after every message the UI handles selectedIndex is 0 or more; after
\* a tick that finds services it is below their number; and a Stop or a
\* Restart that a key begins is the one of the row selectedIndex of the list,
\* which is one of its rows.
C40_SelectionInRange ==
    [][/\ ui'.selectedIndex >= 0
       /\ (ui'.msg = "tick" /\ Len(ui'.services) > 0)
              => ui'.selectedIndex < Len(ui'.services)
       /\ (call.pc = "idle" /\ call'.op \in {"Stop", "Restart"})
              => /\ ui.selectedIndex \in ListRows
                 /\ call'.name = ui.services[ui.selectedIndex + 1].Name]_vars

\* a tick has moved the selection from the second row to the only row left,
\* and the key s or r has acted on that row
C40_Witness ==
    /\ ui.msg = "tick"
    /\ Len(ui.services) = 1
    /\ ui.selectedIndex = 0
    /\ made = MaxInst
    /\ call.op \in {"Stop", "Restart"}
    /\ call.name = ui.services[1].Name

\* a tick finds fewer services than selectedIndex allows and moves it
TickNeverMovesSelection ==
    [][ui'.msg = "tick" => ui'.selectedIndex = ui.selectedIndex]_vars

\* the key s or r acts on the second row
SecondRowNeverActedOn ==
    ~(call.op \in {"Stop", "Restart"} /\ call.pc # "ret" /\ ui.selectedIndex = 1)

----------------------------------------------------------------------------
(* The locks: m.mu of the Manager and svc.mu of each Service.  A method is
   the sequence of the steps it takes, lock operations included; the
   goroutines take them one at a time.                                      *)

\* one step: k what it does, l the lock or the name of the Service it is
\* about
St(k, l) == [k |-> k, l |-> l]

\* s.mu.Lock() ... s.mu.Unlock() around reads and writes of the fields
Locked(n) == <<St("Lock", n), St("field", n), St("Unlock", n)>>
RLocked(n) == <<St("RLock", n), St("field", n), St("RUnlock", n)>>

\* Package main, Manager.Start
StartSteps(n) ==
    <<St("storage", n), St("kill", n), St("sleep", n),
      St("Lock", Mu), St("insert", n), St("Unlock", Mu), St("go", n)>>

\* Package main, Manager.AddService
AddServiceSteps(n) ==
    <<St("RLock", Mu), St("lookup", n), St("RUnlock", Mu), St("storage", n)>>
        \o StartSteps(n)

\* Package main, Manager.Stop
StopSteps(n) ==
    <<St("Lock", Mu), St("take", n), St("Unlock", Mu),
      St("cancel", n), St("sleep", n), St("kill", n)>>

\* Package main, Manager.StopAll
StopAllSteps ==
    <<St("Lock", Mu), St("range.cancel", <<>>), St("reset", <<>>), St("Unlock", Mu),
      St("sleep", <<>>), St("killall", <<>>)>>

\* Package main, Manager.GetStates
GetStatesSteps ==
    <<St("RLock", Mu), St("range.snapshot", <<>>), St("sort", <<>>), St("RUnlock", Mu)>>

\* Package main, runOnce: the status under the lock, the child, addError
RunOnceSteps(n) ==
    Locked(n) \o <<St("spawn", n), St("wait", n)>> \o Locked(n)

\* A runner that gives up and takes its entry out of the registry while it
\* holds the lock of its Service.
GiveUpUnregisters(n) ==
    <<St("Lock", n), St("field", n), St("Lock", Mu), St("delete", n), St("Unlock", Mu),
      St("Unlock", n)>>

\* Package main, runService at maxReconnects: the count, the status and the
\* error, addLog
GiveUpSteps(n) ==
    Locked(n) \o Locked(n) \o Locked(n)

\* Package service, Manager.Start
SvcStartSteps(n) ==
    <<St("storage", n), St("probe", n), St("log", n), St("kill", n), St("sleep", n),
      St("probe", n),
      St("Lock", Mu), St("insert", n), St("Unlock", Mu), St("go", n), St("log", n)>>

\* Package service, Manager.Stop
SvcStopSteps(n) ==
    <<St("Lock", Mu), St("find", n), St("Unlock", Mu),
      St("cancel", n), St("sleep", n), St("kill", n),
      St("Lock", Mu), St("delete", n), St("Unlock", Mu), St("log", n)>>

\* Package service, Manager.StopAll
SvcStopAllSteps ==
    <<St("Lock", Mu), St("range.stop", <<>>), St("reset", <<>>), St("Unlock", Mu),
      St("sleep", <<>>), St("killall", <<>>)>>

\* Package service, Manager.GetStates
SvcGetStatesSteps ==
    <<St("RLock", Mu), St("range.snapshot", <<>>), St("RUnlock", Mu)>>

\* Package service, Runner.runOnce
SvcRunOnceSteps(n) ==
    Locked(n) \o <<St("log", n), St("spawn", n), St("sleep", n)>>
        \o RLocked(n) \o Locked(n) \o <<St("log", n), St("wait", n), St("log", n)>>
        \o Locked(n) \o Locked(n)

\* Package service, HealthChecker.check
CheckSteps(n) ==
    RLocked(n) \o <<St("probe", n)>> \o Locked(n) \o <<St("log", n)>>
        \o Locked(n) \o Locked(n)

\* what the body of a loop over the registry does with the entry n
EntrySteps(k, n) ==
    CASE k = "range.cancel" -> <<St("cancel", n)>>
      [] k = "range.stop" -> <<St("cancel", n), St("log", n)>>
      [] k = "range.snapshot" -> RLocked(n)
      [] k = "killall" -> <<St("kill", n)>>

RECURSIVE RangeSteps(_, _)
RangeSteps(k, names) ==
    IF names = <<>>
    THEN <<>>
    ELSE EntrySteps(k, Head(names)) \o RangeSteps(k, Tail(names))

\* the steps left once the loop at their head has seen the entries names:
\* the loop's passes, and the passes of the later loop over what it collected
RECURSIVE Unroll(_, _)
Unroll(todo, names) ==
    IF todo = <<>>
    THEN <<>>
    ELSE (IF Head(todo).k \in {"range.cancel", "range.stop", "range.snapshot", "killall"}
          THEN RangeSteps(Head(todo).k, names)
          ELSE <<Head(todo)>>) \o Unroll(Tail(todo), names)

MethodSteps(impl, op, n) ==
    CASE op = "Start" -> IF impl = "main" THEN StartSteps(n) ELSE SvcStartSteps(n)
      [] op = "AddService" -> AddServiceSteps(n)
      [] op = "Stop" -> IF impl = "main" THEN StopSteps(n) ELSE SvcStopSteps(n)
      [] op = "StopAll" -> IF impl = "main" THEN StopAllSteps ELSE SvcStopAllSteps
      [] op = "GetStates" -> IF impl = "main" THEN GetStatesSteps ELSE SvcGetStatesSteps

\* the methods a goroutine calls: in package main Update calls them all; in
\* package service Update and the application call Start, Stop and StopAll
\* and a tea.Cmd calls GetStates
Calls(impl, t) ==
    IF impl = "main"
    THEN IF t = "ui" THEN {"Start", "AddService", "Stop", "StopAll", "GetStates"} ELSE {}
    ELSE IF t = "ui" THEN {"Start", "Stop", "StopAll"} ELSE {"GetStates"}

\* what the goroutines of the Service n run
GoSteps(impl, n) ==
    IF impl = "main"
    THEN {RunOnceSteps(n), GiveUpSteps(n)}
    ELSE {SvcRunOnceSteps(n), CheckSteps(n)}

Holds(t, l) == locks.lk[l].w = t \/ t \in locks.lk[l].r

\* the goroutine t after the step at the head of its todo
Rest(t) ==
    IF Len(locks.th[t].todo) = 1
    THEN IdleThread
    ELSE [locks.th[t] EXCEPT !.todo = Tail(@)]

OtherVars == <<services, svcs, cancelled, rootDone, run, procs, made, call, seen, env,
               checker, main, ui, file>>

\* a goroutine calls a method of the Manager
LockCall(t, op, n) ==
    /\ locks.th[t].todo = <<>>
    /\ op \in Calls(locks.impl, t)
    /\ locks' = [locks EXCEPT
                    !.th[t] = [op |-> op, todo |-> MethodSteps(locks.impl, op, n)]]
    /\ UNCHANGED OtherVars

\* a goroutine of a started Service goes through one of its critical
\* sections
GoRun(t) ==
    /\ locks.th[t].todo = <<>>
    /\ GoOf[t] \in locks.live
    /\ \E steps \in GoSteps(locks.impl, GoOf[t]) :
           locks' = [locks EXCEPT !.th[t] = [op |-> "go", todo |-> steps]]
    /\ UNCHANGED OtherVars

\* Lock: announce the writer, then wait until no one holds the lock; RLock:
\* wait until no writer holds or wants it
Acquire(t) ==
    /\ locks.th[t].todo # <<>>
    /\ LET st == Head(locks.th[t].todo)
           l == st.l
       IN  \/ /\ st.k = "Lock"
              /\ locks' = [locks EXCEPT
                              !.lk[l].want = @ \cup {t},
                              !.th[t].todo = <<St("Locking", l)>> \o Tail(@)]
           \/ /\ st.k = "Locking"
              /\ locks.lk[l].w = "" /\ locks.lk[l].r = {}
              /\ locks' = [locks EXCEPT !.lk[l].w = t, !.lk[l].want = @ \ {t},
                                        !.th[t] = Rest(t)]
           \/ /\ st.k = "RLock"
              /\ locks.lk[l].w = "" /\ locks.lk[l].want = {}
              /\ locks' = [locks EXCEPT !.lk[l].r = @ \cup {t}, !.th[t] = Rest(t)]
    /\ UNCHANGED OtherVars

\* Unlock, RUnlock
Release(t) ==
    /\ locks.th[t].todo # <<>>
    /\ LET st == Head(locks.th[t].todo)
           l == st.l
       IN  \/ /\ st.k = "Unlock"
              /\ locks' = [locks EXCEPT !.lk[l].w = "", !.th[t] = Rest(t)]
           \/ /\ st.k = "RUnlock"
              /\ locks' = [locks EXCEPT !.lk[l].r = @ \ {t}, !.th[t] = Rest(t)]
    /\ UNCHANGED OtherVars

\* the reads and writes of m.services
Registry(t) ==
    /\ locks.th[t].todo # <<>>
    /\ LET st == Head(locks.th[t].todo)
           n == st.l
       IN  \/ /\ st.k = "insert"
              /\ locks' = [locks EXCEPT !.reg = @ \cup {n}, !.th[t] = Rest(t)]
           \/ /\ st.k = "delete"
              /\ locks' = [locks EXCEPT !.reg = @ \ {n}, !.th[t] = Rest(t)]
           \/ /\ st.k = "reset"
              /\ locks' = [locks EXCEPT !.reg = {}, !.th[t] = Rest(t)]
           \/ /\ st.k = "take"
              /\ locks' = IF n \in locks.reg
                          THEN [locks EXCEPT !.reg = @ \ {n}, !.th[t] = Rest(t)]
                          ELSE [locks EXCEPT !.th[t].todo = <<St("Unlock", Mu)>>]
           \/ /\ st.k = "find"
              /\ locks' = IF n \in locks.reg
                          THEN [locks EXCEPT !.th[t] = Rest(t)]
                          ELSE [locks EXCEPT !.th[t].todo = <<St("Unlock", Mu)>>]
           \/ /\ st.k = "lookup"
              /\ locks' = IF n \in locks.reg
                          THEN [locks EXCEPT !.th[t].todo = <<St("RUnlock", Mu)>>]
                          ELSE [locks EXCEPT !.th[t] = Rest(t)]
           \/ /\ st.k \in {"range.cancel", "range.stop", "range.snapshot"}
              /\ locks' = [locks EXCEPT
                              !.th[t].todo = Unroll(@, SortNames(locks.reg))]
    /\ UNCHANGED OtherVars

\* what blocks or takes time: file and network I/O, process operations,
\* sleeps
Slow == {"storage", "probe", "log", "kill", "spawn", "wait", "sleep"}

\* every other step: cancel() ends the goroutines of the Service, go starts
\* them, the rest changes nothing that the locks depend on
Work(t) ==
    /\ locks.th[t].todo # <<>>
    /\ LET st == Head(locks.th[t].todo)
           n == st.l
       IN  \/ /\ st.k = "cancel"
              /\ locks' = [locks EXCEPT !.live = @ \ {n}, !.th[t] = Rest(t)]
           \/ /\ st.k = "go"
              /\ locks' = [locks EXCEPT !.live = @ \cup {n}, !.th[t] = Rest(t)]
           \/ /\ st.k \in Slow \cup {"field", "sort"}
              /\ locks' = [locks EXCEPT !.th[t] = Rest(t)]
    /\ UNCHANGED OtherVars

InitLocks ==
    /\ services = <<>>
    /\ svcs = <<>>
    /\ cancelled = <<>>
    /\ rootDone = FALSE
    /\ run = <<>>
    /\ procs = <<>>
    /\ made = 0
    /\ call = IdleCall
    /\ seen = <<>>
    /\ env = [faults |-> 0, lines |-> 0, kinds |-> {"shell"}, track |-> FALSE,
              held |-> {}, rands |-> {500}]
    /\ checker = <<>>
    /\ main = nil
    /\ ui = nil
    /\ file = nil
    /\ locks \in {[NoLocks EXCEPT !.impl = i] : i \in {"main", "service"}}

NextLocks ==
    \/ \E t \in Callers, op \in {"Start", "AddService", "Stop", "StopAll", "GetStates"},
          n \in LockNames : LockCall(t, op, n)
    \/ \E t \in DOMAIN GoOf : GoRun(t)
    \/ \E t \in Threads : Acquire(t)
    \/ \E t \in Threads : Release(t)
    \/ \E t \in Threads : Registry(t)
    \/ \E t \in Threads : Work(t)

SpecLocks == InitLocks /\ [][NextLocks]_vars

\* the step the goroutine t takes next
NextStep(t) == Head(locks.th[t].todo)

\* C33: a goroutine that holds the registry lock m.mu is not about to do
\* file or network I/O, a process operation or a sleep: under the lock it
\* reads and writes the registry map only.
C33_RegistryLockOnlyAroundMap ==
    \A t \in Threads :
        Holds(t, Mu) => NextStep(t).k \notin Slow

\* the same for the methods of package main
MainLocksOnlyAroundMap ==
    locks.impl = "main" => C33_RegistryLockOnlyAroundMap

\* the same for the methods of package service but StopAll
SvcLocksOnlyAroundMapButStopAll ==
    \A t \in Threads :
        (Holds(t, Mu) /\ locks.th[t].op # "StopAll") => NextStep(t).k \notin Slow

\* under the registry lock a goroutine does not even call cancel()
NoCancelUnderRegistryLock ==
    \A t \in Threads : Holds(t, Mu) => NextStep(t).k # "cancel"

\* the goroutine t waits for a lock
Waits(t) ==
    /\ locks.th[t].todo # <<>>
    /\ LET st == NextStep(t)
       IN  \/ st.k = "Locking" /\ ~(locks.lk[st.l].w = "" /\ locks.lk[st.l].r = {})
           \/ st.k = "RLock" /\ ~(locks.lk[st.l].w = "" /\ locks.lk[st.l].want = {})

\* the goroutines that have to let go before t gets the lock it waits for
Blockers(t) ==
    LET st == NextStep(t)
        holder == {u \in Threads : locks.lk[st.l].w = u}
    IN  IF st.k = "Locking"
        THEN holder \cup locks.lk[st.l].r
        ELSE holder \cup locks.lk[st.l].want

\* some goroutines wait for each other for ever
Deadlocked ==
    \E S \in SUBSET Threads :
        /\ S # {}
        /\ \A t \in S : Waits(t) /\ Blockers(t) \cap S # {}

\* the goroutine t asks for the registry lock
AsksForMu(t) ==
    /\ locks.th[t].todo # <<>>
    /\ NextStep(t).k \in {"Lock", "Locking", "RLock"}
    /\ NextStep(t).l = Mu

\* C38: no goroutine asks for the registry lock while it holds the lock of
\* a Service, so that the registry lock comes first wherever both are held,
\* and no set of goroutines wait for each other.
C38_LockOrderNoDeadlock ==
    /\ \A t \in Threads : AsksForMu(t) => \A n \in LockNames : ~Holds(t, n)
    /\ ~Deadlocked

\* GetStates holds the registry lock and waits for the lock of a Service
\* that a goroutine of the Service holds
C38_Witness ==
    \E t \in Callers, g \in DOMAIN GoOf :
        /\ Holds(t, Mu)
        /\ Waits(t)
        /\ NextStep(t).l = GoOf[g]
        /\ Holds(g, GoOf[g])

====
